---- MODULE Spec2Model ----
(***************************************************************************)
(* uruflow: the coordinator (internal/tcp Server, Connection) and the      *)
(* worker daemon (internal/agent/daemon), modelled as state machines.      *)
(*                                                                         *)
(* Spec         the coordinator: accept, authenticate, registry, read      *)
(*              loop, liveness ticker, with a clock in seconds.            *)
(* SpecCommand  the worker daemon: run loop, command tasks, stop.          *)
(* SpecSerial   the same, with commands arriving one at a time.            *)
(* SpecStreams  the worker daemon: run loop, container log stream tasks,   *)
(*              stop.                                                      *)
(* SpecCodec    the frame codec: Writer, Reader and header on one stream.  *)
(* SpecMessages the coordinator's handlers of the frames of registered     *)
(*              sessions: metrics, alerts, deployments.                    *)
(* SpecSendFail the coordinator of Spec, with pings whose write fails.      *)
(* SpecTrigger  the coordinator of Spec and one call of TriggerDeploy.      *)
(* SpecLogs     two runs with different token strings, and their logs.     *)
(* SpecStop     the coordinator of Spec with Server.Stop; SpecStopFair     *)
(*              adds that the handlers keep running.                       *)
(* SpecRun      the worker daemon's life cycle: reconnect loop, connect,   *)
(*              run loop and its reader goroutine, stop.  SpecRunFair adds *)
(*              that the daemon's goroutines keep running.                 *)
(* SpecSlowStream the frame codec on a slow link, read with a deadline.    *)
(* SpecDocker   the daemon of SpecStreams built with or without the docker *)
(*              service, sending metrics.                                  *)
(* SpecLiveness the coordinator's sessions delivering PONG, METRICS and    *)
(*              COMMAND_* frames, with the liveness ticker.                *)
(* SpecHandshake the coordinator of Spec and a daemon that connects and    *)
(*              authenticates.                                             *)
(* SpecDecode   sessions and a daemon sent payloads that do not decode.    *)
(***************************************************************************)
EXTENDS Integers, Sequences, FiniteSets, TLC

(***************************************************************************)
(* Bounds of the model.                                                    *)
(***************************************************************************)
MaxConns == 2
MaxTime == 60
MaxCmds == 2
MaxLogs == 1
MaxReqs == 2
MaxLines == 1
MaxContainers == 1
MaxPayloadLen == 1
MaxFrames == 2
MaxFramesBeforeRaw == 1
MaxMsgs == 3
MaxAttempts == 2
MaxPeerFrames == 2
MaxWrites == 3
MaxEvents == 5

(***************************************************************************)
(* Program constants (seconds).                                            *)
(***************************************************************************)
AuthTimeout == 10
PingInterval == 30
PongTimeout == 45

(***************************************************************************)
(* Program constants of the frame codec (internal/tcp/protocol).           *)
(***************************************************************************)
MagicByte1 == 85
MagicByte2 == 70
Version == 1
HeaderSize == 8
MaxPayloadSize == 16 * 1024 * 1024
TypeMetricsAck == 17
TypePing == 48

\* The clock advances in steps of half a ping interval: a clock value t stands
\* for the real times in [t, t + TimeStep).  Ticks fall on multiples of
\* PingInterval and PongTimeout is a multiple of TimeStep, so the comparison
\* "now - LastPing > PongTimeout" is the same on the rounded values.
TimeStep == PingInterval \div 2

Conns == 1..MaxConns
NoConn == 0

\* cfg.Agents: the worker-config table, token -> (ID, Name).
AgentTable ==
    [T1 |-> [ID |-> "W1", Name |-> "prod"],
     T2 |-> [ID |-> "W2", Name |-> "staging"]]

KnownTokens == DOMAIN AgentTable
Tokens == KnownTokens \cup {"Tx"}
Agents == {AgentTable[t].ID : t \in KnownTokens}
NoAgent == ""

\* A lookup that answers the first table entry for a token it does not hold.
GetAgentByTokenDefault(t) ==
    IF t \in KnownTokens THEN AgentTable[t] ELSE AgentTable["T1"]

GetAgentByToken(t) ==
    IF t \in KnownTokens THEN AgentTable[t] ELSE [ID |-> NoAgent, Name |-> ""]

\* Workers whose daemon is alive behind every session it holds: each PING the
\* coordinator writes to one of their sessions is answered (daemon.handleMessage,
\* case TypePing) and the PONG is read before the next tick.  The other
\* workers may answer or not.
Responsive == {"W1"}

Frame(kind, a, b) == [kind |-> kind, a |-> a, b |-> b]

VARIABLES
    now,          \* the clock, seconds
    pc,           \* pc[c]: where connection c's handleConnection goroutine is
    closed,       \* Connection.closed
    AgentID,      \* Connection.AgentID ("" until SetAgent)
    AgentName,    \* Connection.AgentName
    LastPing,     \* Connection.LastPing
    token,        \* the token of the AUTH frame read on c ("" if none)
    sent,         \* the frames the coordinator wrote on c's stream, in order
    pingOut,      \* a PING was written on c and no PONG was read since
    connections,  \* Server.connections: worker-id -> connection
    storeStatus,  \* agents.status in the store: "none" | "online" | "offline"
    offlineAlerts,\* unresolved agent_offline alerts in the store, per worker
    tickerPc,     \* pingService: "wait" | "loop" (inside pingAll)
    conns,        \* pingAll's snapshot: the connections still to visit
    lastTick      \* the time of the last tick

coordVars == <<now, pc, closed, AgentID, AgentName, LastPing, token, sent,
               pingOut, connections, storeStatus, offlineAlerts, tickerPc, conns, lastTick>>

VARIABLES
    stopChan,     \* Daemon.stopChan is closed
    mainPc,       \* the daemon's main goroutine: "run" (Run's loop) | "loop" (runLoop) | "exited"
    dconn,        \* Daemon.conn: "nil" | "open"
    wsent,        \* the frames the daemon wrote on its stream, in order
    cmdPc,        \* cmdPc[k]: where command k's handleCommand goroutine is
    cmd,          \* cmd[k]: command k's CommandPayload
    cmdLogs,      \* the lines command k's Execute has logged
    onLog,        \* Executor.onLog: the command whose callback is installed (0: nil)
    reqPc,        \* reqPc[r]: where request r's handleContainerLogsRequest goroutine is
    reqCid,       \* the request's container_id
    reqLines,     \* the lines request r's stream has read
    cancelled,    \* request r's context is cancelled
    streamCancels,\* Daemon.streamCancels: container_id -> the request whose cancel it holds (0: none)
    stopSeen      \* a CONTAINER_LOGS_STOP for the container was handled after its last request

workerVars == <<stopChan, mainPc, dconn, wsent, cmdPc, cmd, cmdLogs, onLog,
                reqPc, reqCid, reqLines, cancelled, streamCancels, stopSeen>>

VARIABLES
    stream,       \* the bytes written on a byte stream and not yet read, as runs
    eof,          \* the writing side of the stream is closed
    written,      \* the messages Writer.Write was called with, in order
    readBack,     \* the messages Reader.Read has returned, in order
    readErr,      \* the error Reader.Read has returned ("nil": none)
    raw,          \* bytes not produced by Writer.Write were put on the stream
    decoded       \* the last call of DecodeHeader: its argument and its result

codecVars == <<stream, eof, written, readBack, readErr, raw, decoded>>

VARIABLES
    handling,     \* handling[c]: the frame c's handler is inside processMessage with
    storeCPU,     \* agents.cpu_percent in the store, per worker (0 until written)
    alerts,       \* unresolved high_cpu alerts in the store: worker -> message -> count
    deployments,  \* deployments.status in the store, per id ("none": no row)
    deployLogs,   \* the deployment_logs rows in the store, per deployment id, in order
    critRun,      \* critRun[a]: METRICS frames of a with CPU above 90 handled in a row,
                  \* no other METRICS frame of a read and no alert of a resolved since
    lastFrame     \* the last frame a handler read: its number, session, kind, id

msgVars == <<handling, storeCPU, alerts, deployments, deployLogs, critRun, lastFrame>>

VARIABLES
    attempts,     \* the calls of connect() Run has made
    readerPc,     \* the readMessages goroutine of the current runLoop: "none" | "head" (its
                  \* select) | "deadline" (before d.conn.SetReadDeadline) | "read" |
                  \* "msg" (sending on msgChan) | "err" (sending on errChan) | "done"
    rmsg,         \* the frame the reader holds ("": none)
    ctxDone,      \* runLoop's ctx is cancelled
    msgChan,      \* runLoop's msgChan
    errChan,      \* runLoop's errChan holds an error
    inbox,        \* the frames the coordinator wrote on the session, not yet read
    peer,         \* the coordinator's end of the session: "none" | "up" | "closed"
    peerFrames    \* the frames the coordinator has written, over all sessions

runVars == <<attempts, readerPc, rmsg, ctxDone, msgChan, errChan, inbox, peer, peerFrames>>

VARIABLES
    sendFailedAt, \* sendFailedAt[c]: when a Send on c last failed with c open (-1: never)
    stopPc        \* Server.Stop: "running" (not called) | "closing" (s.done and the
                  \* listener are closed) | "stopped" (Stop has returned)

srvVars == <<sendFailedAt, stopPc>>

VARIABLES
    trigPc,       \* the call of TriggerDeploy: "idle" | "create" | "send" | "returned"
    trigAgent,    \* its agentID
    trigErr,      \* the error it returned ("nil": none; "": not returned)
    depOutput     \* deployments.output in the store, per deployment id

trigVars == <<trigPc, trigAgent, trigErr, depOutput>>

VARIABLES
    logPc,        \* logPc[r]: run r's connection: "start" | "auth" | "active"
    runTok,       \* runTok[r]: the token the worker of run r presents
    logLines,     \* logLines[r]: the log lines of coordinator and worker in run r
    alertBodies,  \* alertBodies[r]: the alerts created in run r
    logEvents     \* the events the two runs have gone through

logVars == <<logPc, runTok, logLines, alertBodies, logEvents>>

VARIABLES
    inFlight,     \* the bytes written on the byte stream that have not arrived yet
    dockerSvc,    \* Daemon.docker: "nil" | "svc"
    connStart     \* Len(wsent) when the daemon's current stream was dialled

auxVars == <<inFlight, dockerSvc, connStart>>

extVars == <<runVars, srvVars, trigVars, logVars, auxVars>>

nonCoordVars == <<workerVars, codecVars, msgVars, extVars>>
nonWorkerVars == <<coordVars, codecVars, msgVars, extVars>>
nonCodecVars == <<coordVars, workerVars, msgVars, extVars>>
nonMsgVars == <<workerVars, codecVars, extVars>>

vars == <<coordVars, workerVars, codecVars, msgVars, extVars>>

----
(***************************************************************************)
(* Connection (internal/tcp/connection.go)                                 *)
(***************************************************************************)

\* Connection.Send: nothing is written on a closed connection.
\* A Send that does not test the closed flag.
SendUnchecked(c, msg) == [sent EXCEPT ![c] = Append(@, msg)]

Send(c, msg) == IF closed[c] THEN sent ELSE [sent EXCEPT ![c] = Append(@, msg)]

\* Connection.Close: idempotent, sets the closed flag.
Close(c) == [closed EXCEPT ![c] = TRUE]

\* What Send can return: net.ErrClosed on a closed connection, else the result
\* of Writer.WriteWithTimeout.
SendErr(c) == IF closed[c] THEN {"ErrClosed"} ELSE {"nil", "write error"}

\* What Close can return: nil on a closed connection, else the result of
\* net.Conn.Close.
CloseErr(c) == IF closed[c] THEN {"nil"} ELSE {"nil", "close error"}

\* An UpdatePing that leaves LastPing as it is.
UpdatePingStale(c) == LastPing

\* Connection.UpdatePing
UpdatePing(c) == [LastPing EXCEPT ![c] = now]

----
(***************************************************************************)
(* Server (internal/tcp server)                                            *)
(***************************************************************************)

CoordInit ==
    /\ now = 0
    /\ pc = [c \in Conns |-> "free"]
    /\ closed = [c \in Conns |-> FALSE]
    /\ AgentID = [c \in Conns |-> NoAgent]
    /\ AgentName = [c \in Conns |-> ""]
    /\ LastPing = [c \in Conns |-> 0]
    /\ token = [c \in Conns |-> ""]
    /\ sent = [c \in Conns |-> <<>>]
    /\ pingOut = [c \in Conns |-> FALSE]
    /\ connections = [a \in Agents |-> NoConn]
    /\ storeStatus = [a \in Agents |-> "none"]
    /\ offlineAlerts = [a \in Agents |-> 0]
    /\ tickerPc = "wait"
    /\ conns = {}
    /\ lastTick = 0

\* acceptRequests + the head of handleConnection: NewConnection.
Accept(c) ==
    /\ pc[c] = "free"
    /\ \A d \in Conns : d < c => pc[d] # "free"
    /\ pc' = [pc EXCEPT ![c] = "auth"]
    /\ LastPing' = [LastPing EXCEPT ![c] = now]
    /\ UNCHANGED <<now, closed, AgentID, AgentName, token, sent, pingOut,
                   connections, storeStatus, offlineAlerts, tickerPc, conns, lastTick, nonCoordVars>>

\* authenticate fails having written `reply` (or nothing) and returns the error.
AuthFail(c, reply) ==
    /\ sent' = IF reply = <<>> THEN sent ELSE Send(c, reply[1])
    /\ pc' = [pc EXCEPT ![c] = "authFailed"]
    /\ UNCHANGED <<now, closed, AgentID, AgentName, LastPing, pingOut,
                   connections, storeStatus, offlineAlerts, tickerPc, conns, lastTick, nonCoordVars>>

\* handleConnection's failure branch: conn.Close(); return.
AuthClose(c) ==
    /\ pc[c] = "authFailed"
    /\ closed' = Close(c)
    /\ pc' = [pc EXCEPT ![c] = "done"]
    /\ UNCHANGED <<now, AgentID, AgentName, LastPing, token, sent, pingOut,
                   connections, storeStatus, offlineAlerts, tickerPc, conns, lastTick, nonCoordVars>>

\* authenticate, read error: ReceiveWithTimeout failed (deadline, EOF, reset).
AuthReadError(c) ==
    /\ pc[c] = "auth"
    /\ AuthFail(c, <<>>)
    /\ UNCHANGED token

\* authenticate, first frame is not AUTH.
AuthWrongKind(c) ==
    /\ pc[c] = "auth"
    /\ AuthFail(c, <<Frame("ERROR", "401", "expected AUTH message")>>)
    /\ UNCHANGED token

\* authenticate, AUTH payload does not decode.
AuthBadPayload(c) ==
    /\ pc[c] = "auth"
    /\ AuthFail(c, <<Frame("ERROR", "400", "invalid auth payload")>>)
    /\ UNCHANGED token

\* authenticate, token not in the worker-config table.
AuthInvalidToken(c, t) ==
    /\ pc[c] = "auth"
    /\ GetAgentByToken(t).ID = NoAgent
    /\ token' = [token EXCEPT ![c] = t]
    /\ AuthFail(c, <<Frame("AUTH_FAIL", "invalid token", "")>>)

\* store.CreateAgent / store.UpdateAgent with Status = AgentOnline.
StoreOnline(a) == [storeStatus EXCEPT ![a] = "online"]

\* authenticate, known token: up to the store write.
AuthStore(c, t) ==
    /\ pc[c] = "auth"
    /\ GetAgentByToken(t).ID # NoAgent
    /\ token' = [token EXCEPT ![c] = t]
    /\ storeStatus' = StoreOnline(GetAgentByToken(t).ID)
    /\ pc' = [pc EXCEPT ![c] = "authStored"]
    /\ UNCHANGED <<now, closed, AgentID, AgentName, LastPing, sent, pingOut,
                   connections, offlineAlerts, tickerPc, conns, lastTick, nonCoordVars>>

\* An AUTH_OK frame with the two fields exchanged.
AuthOKMsgSwapped(cfg) == Frame("AUTH_OK", cfg.Name, cfg.ID)

\* The AUTH_OK frame authenticate builds for the table entry cfg.
AuthOKMsg(cfg) == Frame("AUTH_OK", cfg.ID, cfg.Name)

\* authenticate, known token: SetAgent, Send(AUTH_OK), return the worker-id.
AuthOK(c) ==
    /\ pc[c] = "authStored"
    /\ LET cfg == GetAgentByToken(token[c]) IN
        /\ AgentID' = [AgentID EXCEPT ![c] = cfg.ID]
        /\ AgentName' = [AgentName EXCEPT ![c] = cfg.Name]
        /\ sent' = Send(c, AuthOKMsg(cfg))
    /\ pc' = [pc EXCEPT ![c] = "authed"]
    /\ UNCHANGED <<now, closed, LastPing, token, pingOut,
                   connections, storeStatus, offlineAlerts, tickerPc, conns, lastTick, nonCoordVars>>

\* The connections closed by addConnection(agentID, conn): the one it displaces.
AddCloses(agentID, c) ==
    IF connections[agentID] # NoConn THEN {connections[agentID]} ELSE {}

\* addConnection, under s.mu.
AddConnection(c) ==
    /\ pc[c] = "authed"
    /\ closed' = [d \in Conns |-> closed[d] \/ d \in AddCloses(AgentID[c], c)]
    /\ connections' = [connections EXCEPT ![AgentID[c]] = c]
    /\ pc' = [pc EXCEPT ![c] = "active"]
    /\ UNCHANGED <<now, AgentID, AgentName, LastPing, token, sent, pingOut,
                   storeStatus, offlineAlerts, tickerPc, conns, lastTick, nonCoordVars>>

\* The registry entry removeConnection(agentID) acts on: the one under agentID.
RemoveTarget(agentID) == connections[agentID]

\* An UpdateAgentStatus that writes nothing.
StoreOfflineSkipped(a) == storeStatus

\* store.UpdateAgentStatus(agentID, AgentOffline): an UPDATE, no row no change.
StoreOffline(a) ==
    [storeStatus EXCEPT ![a] = IF @ = "none" THEN "none" ELSE "offline"]

\* removeConnection, under s.mu: what it leaves in closed, connections,
\* storeStatus and offlineAlerts.
RemoveConnection(agentID) ==
    IF RemoveTarget(agentID) # NoConn
    THEN /\ closed' = Close(RemoveTarget(agentID))
         /\ connections' = [connections EXCEPT ![agentID] = NoConn]
         /\ storeStatus' = StoreOffline(agentID)
         /\ offlineAlerts' = [offlineAlerts EXCEPT ![agentID] = @ + 1]
    ELSE UNCHANGED <<closed, connections, storeStatus, offlineAlerts>>

\* handleMessages: Receive returned a PONG; processMessage -> UpdatePing.
RecvPong(c) ==
    /\ pc[c] = "active"
    /\ pingOut[c]
    /\ LastPing' = UpdatePing(c)
    /\ pingOut' = [pingOut EXCEPT ![c] = FALSE]
    /\ UNCHANGED <<now, pc, closed, AgentID, AgentName, token, sent,
                   connections, storeStatus, offlineAlerts, tickerPc, conns, lastTick, nonCoordVars>>

\* handleMessages: Receive returned a DISCONNECT; processMessage -> conn.Close().
RecvDisconnect(c) ==
    /\ pc[c] = "active"
    /\ ~closed[c]
    /\ closed' = Close(c)
    /\ UNCHANGED <<now, pc, AgentID, AgentName, LastPing, token, sent, pingOut,
                   connections, storeStatus, offlineAlerts, tickerPc, conns, lastTick, nonCoordVars>>

\* handleMessages: Receive failed with a timeout (the 60 s deadline): continue.
RecvTimeout(c) ==
    /\ pc[c] = "active"
    /\ ~closed[c]
    /\ UNCHANGED vars

\* handleMessages: Receive failed otherwise (EOF, reset, closed): return.
RecvError(c) ==
    /\ pc[c] = "active"
    /\ pc' = [pc EXCEPT ![c] = "exiting"]
    /\ UNCHANGED <<now, closed, AgentID, AgentName, LastPing, token, sent, pingOut,
                   connections, storeStatus, offlineAlerts, tickerPc, conns, lastTick, nonCoordVars>>

\* handleConnection's deferred s.removeConnection(agentID).
HandlerExit(c) ==
    /\ pc[c] = "exiting"
    /\ RemoveConnection(AgentID[c])
    /\ pc' = [pc EXCEPT ![c] = "done"]
    /\ UNCHANGED <<now, AgentID, AgentName, LastPing, token, sent, pingOut,
                   tickerPc, conns, lastTick, nonCoordVars>>

----
(***************************************************************************)
(* Liveness ticker (pingService, pingAll)                                  *)
(***************************************************************************)

TickDue == now = lastTick + PingInterval

\* pingService: ticker.C fires; pingAll snapshots the registry under RLock.
Tick ==
    /\ tickerPc = "wait"
    /\ TickDue
    /\ lastTick' = now
    /\ conns' = {connections[a] : a \in Agents} \ {NoConn}
    /\ tickerPc' = IF conns' = {} THEN "wait" ELSE "loop"
    /\ UNCHANGED <<now, pc, closed, AgentID, AgentName, LastPing, token, sent,
                   pingOut, connections, storeStatus, offlineAlerts, nonCoordVars>>

\* A test that allows one more ping interval.
PingExpiredLate(c) == now - LastPing[c] > PongTimeout + PingInterval

\* pingAll's test: time.Since(conn.LastPing) > PongTimeout
PingExpired(c) == now - LastPing[c] > PongTimeout

\* pingAll, one iteration of the loop over the snapshot.
PingOne(c) ==
    /\ tickerPc = "loop"
    /\ c \in conns
    /\ IF PingExpired(c)
       THEN /\ RemoveConnection(AgentID[c])
            /\ UNCHANGED <<sent, pingOut>>
       ELSE /\ sent' = Send(c, Frame("PING", "", ""))
            /\ pingOut' = [pingOut EXCEPT ![c] = @ \/ ~closed[c]]
            /\ UNCHANGED <<closed, connections, storeStatus, offlineAlerts>>
    /\ conns' = conns \ {c}
    /\ tickerPc' = IF conns' = {} THEN "wait" ELSE "loop"
    /\ UNCHANGED <<now, pc, AgentID, AgentName, LastPing, token, lastTick, nonCoordVars>>

\* A handler step that takes no time: the handler is between two statements,
\* or its read fails at once because its own side is closed.
Urgent(c) ==
    \/ pc[c] \in {"authFailed", "authStored", "authed", "exiting"}
    \/ pc[c] = "active" /\ closed[c]

\* The clock.  Time does not pass while pingAll runs or a handler has an urgent
\* step; a connection waits for AUTH no longer than AuthTimeout; a responsive
\* worker's PONG is read before the next tick.
AdvanceTime ==
    /\ now + TimeStep <= MaxTime
    /\ tickerPc = "wait"
    /\ ~TickDue
    /\ \A c \in Conns :
        /\ ~Urgent(c)
        /\ pc[c] = "auth" => now - LastPing[c] < AuthTimeout
        /\ (pc[c] = "active" /\ pingOut[c] /\ AgentID[c] \in Responsive)
              => now + TimeStep < lastTick + PingInterval
    /\ now' = now + TimeStep
    /\ UNCHANGED <<pc, closed, AgentID, AgentName, LastPing, token, sent, pingOut,
                   connections, storeStatus, offlineAlerts, tickerPc, conns, lastTick, nonCoordVars>>

----
(***************************************************************************)
(* Worker daemon (internal/agent/daemon/daemon.go)                         *)
(***************************************************************************)

Cmds == 1..MaxCmds
Reqs == 1..MaxReqs
Containers == 1..MaxContainers
NoCmd == 0
NoReq == 0

\* CommandPayload: the command's type, and whether its payload unmarshals
\* into handleDeploy's deployPayload struct.
CommandPayload == [Type : {"deploy", "restart"}, Decodes : BOOLEAN]
NoCommand == [Type |-> "", Decodes |-> FALSE]

\* A frame the daemon writes: its kind, the command_id or container_id it
\* carries, the command or request whose execution produced it, and the
\* status of a COMMAND_DONE.
WFrame(kind, id, src, status) == [kind |-> kind, id |-> id, src |-> src, status |-> status]

WorkerInit ==
    /\ stopChan = FALSE
    /\ mainPc = "run"
    /\ dconn = "nil"
    /\ wsent = <<>>
    /\ cmdPc = [k \in Cmds |-> "none"]
    /\ cmd = [k \in Cmds |-> NoCommand]
    /\ cmdLogs = [k \in Cmds |-> 0]
    /\ onLog = NoCmd
    /\ reqPc = [r \in Reqs |-> "none"]
    /\ reqCid = [r \in Reqs |-> 0]
    /\ reqLines = [r \in Reqs |-> 0]
    /\ cancelled = [r \in Reqs |-> FALSE]
    /\ streamCancels = [cid \in Containers |-> NoReq]
    /\ stopSeen = [cid \in Containers |-> FALSE]

\* safeWrite: d.writer.Write under writeMu; on a closed stream the write fails
\* and nothing is written (every caller drops the error).
SafeWrite(msg) == IF dconn = "open" THEN Append(wsent, msg) ELSE wsent

\* Run's signal goroutine: close(d.stopChan).
Signal ==
    /\ ~stopChan
    /\ stopChan' = TRUE
    /\ UNCHANGED <<mainPc, dconn, wsent, cmdPc, cmd, cmdLogs, onLog,
                   reqPc, reqCid, reqLines, cancelled, streamCancels, stopSeen, nonWorkerVars>>

\* Run's loop, default branch: connect() succeeds (dial, AUTH, AUTH_OK); runLoop starts.
Connect ==
    /\ mainPc = "run"
    /\ ~stopChan
    /\ dconn = "nil"
    /\ dconn' = "open"
    /\ mainPc' = "loop"
    /\ UNCHANGED <<stopChan, wsent, cmdPc, cmd, cmdLogs, onLog,
                   reqPc, reqCid, reqLines, cancelled, streamCancels, stopSeen, nonWorkerVars>>

\* Run's loop, case <-d.stopChan: return nil.
RunReturn ==
    /\ mainPc = "run"
    /\ stopChan
    /\ mainPc' = "exited"
    /\ UNCHANGED <<stopChan, dconn, wsent, cmdPc, cmd, cmdLogs, onLog,
                   reqPc, reqCid, reqLines, cancelled, streamCancels, stopSeen, nonWorkerVars>>

\* The requests whose cancel handle disconnect invokes: those in the table.
DisconnectCancels == {streamCancels[cid] : cid \in Containers} \ {NoReq}

\* disconnect: best-effort DISCONNECT, close the stream, d.conn = nil; then,
\* under streamMu, invoke every handle of the table and replace the table.
Disconnect ==
    /\ wsent' = IF dconn = "nil" THEN wsent ELSE SafeWrite(WFrame("DISCONNECT", 0, 0, ""))
    /\ dconn' = "nil"
    /\ cancelled' = [r \in Reqs |-> cancelled[r] \/ r \in DisconnectCancels]
    /\ streamCancels' = [cid \in Containers |-> NoReq]

\* runLoop, case <-d.stopChan: cancel(); d.disconnect(); return.
LoopStop ==
    /\ mainPc = "loop"
    /\ stopChan
    /\ Disconnect
    /\ mainPc' = "run"
    /\ UNCHANGED <<stopChan, cmdPc, cmd, cmdLogs, onLog,
                   reqPc, reqCid, reqLines, stopSeen, nonWorkerVars>>

\* handleMessage, case TypeCommand: decode, go d.handleCommand(cmd).
HandleCommand(k, payload) ==
    /\ mainPc = "loop"
    /\ cmdPc[k] = "none"
    /\ \A j \in Cmds : j < k => cmdPc[j] # "none"
    /\ cmdPc' = [cmdPc EXCEPT ![k] = "ack"]
    /\ cmd' = [cmd EXCEPT ![k] = payload]
    /\ UNCHANGED <<stopChan, mainPc, dconn, wsent, cmdLogs, onLog,
                   reqPc, reqCid, reqLines, cancelled, streamCancels, stopSeen, nonWorkerVars>>

\* The same, for a COMMAND that arrives while no earlier command's task is
\* still running: the coordinator issues one command at a time.
HandleCommandIdle(k, payload) ==
    /\ \A j \in Cmds \ {k} : cmdPc[j] \in {"none", "finished"}
    /\ HandleCommand(k, payload)

\* handleCommand: COMMAND_ACK.
CmdAck(k) ==
    /\ cmdPc[k] = "ack"
    /\ wsent' = SafeWrite(WFrame("COMMAND_ACK", k, k, "received"))
    /\ cmdPc' = [cmdPc EXCEPT ![k] = "dispatch"]
    /\ UNCHANGED <<stopChan, mainPc, dconn, cmd, cmdLogs, onLog,
                   reqPc, reqCid, reqLines, cancelled, streamCancels, stopSeen, nonWorkerVars>>

\* A sendCommandDone that writes its frame as a COMMAND_LOG.
SendCommandDoneAsLog(k, status, exitCode, output) ==
    IF dconn = "open" THEN Append(wsent, WFrame("COMMAND_LOG", k, k, status)) ELSE wsent

\* sendCommandDone: the COMMAND_DONE frame carries status, exit_code and output.
SendCommandDone(k, status, exitCode, output) ==
    SafeWrite([kind |-> "COMMAND_DONE", id |-> k, src |-> k, status |-> status,
               exitCode |-> exitCode, output |-> output])

\* A rejection that ends the task without a COMMAND_DONE.
CmdRejectSilent(k) ==
    /\ cmdPc[k] = "dispatch"
    /\ cmd[k].Type # "deploy" \/ ~cmd[k].Decodes
    /\ cmdPc' = [cmdPc EXCEPT ![k] = "finished"]
    /\ UNCHANGED <<stopChan, mainPc, dconn, wsent, cmd, cmdLogs, onLog,
                   reqPc, reqCid, reqLines, cancelled, streamCancels, stopSeen, nonWorkerVars>>

\* handleCommand's default branch (unknown type) and handleDeploy's payload
\* decode failure: sendCommandDone(id, "failed", 1, err).
CmdReject(k) ==
    /\ cmdPc[k] = "dispatch"
    /\ cmd[k].Type # "deploy" \/ ~cmd[k].Decodes
    /\ wsent' = SendCommandDone(k, "failed", 1,
                    IF cmd[k].Type # "deploy" THEN "unknown command type" ELSE "unmarshal error")
    /\ cmdPc' = [cmdPc EXCEPT ![k] = "finished"]
    /\ UNCHANGED <<stopChan, mainPc, dconn, cmd, cmdLogs, onLog,
                   reqPc, reqCid, reqLines, cancelled, streamCancels, stopSeen, nonWorkerVars>>

\* handleDeploy: the payload decodes; COMMAND_START.
CmdStart(k) ==
    /\ cmdPc[k] = "dispatch"
    /\ cmd[k].Type = "deploy"
    /\ cmd[k].Decodes
    /\ wsent' = SafeWrite(WFrame("COMMAND_START", k, k, ""))
    /\ cmdPc' = [cmdPc EXCEPT ![k] = "onlog"]
    /\ UNCHANGED <<stopChan, mainPc, dconn, cmd, cmdLogs, onLog,
                   reqPc, reqCid, reqLines, cancelled, streamCancels, stopSeen, nonWorkerVars>>

\* Executor.OnLog(handler): the one callback field of the shared executor.
OnLog(k) == k

\* handleDeploy: d.deployer.OnLog(func ... CommandID: cmd.ID ...).
CmdOnLog(k) ==
    /\ cmdPc[k] = "onlog"
    /\ onLog' = OnLog(k)
    /\ cmdPc' = [cmdPc EXCEPT ![k] = "exec"]
    /\ UNCHANGED <<stopChan, mainPc, dconn, wsent, cmd, cmdLogs,
                   reqPc, reqCid, reqLines, cancelled, streamCancels, stopSeen, nonWorkerVars>>

\* Executor.log inside Execute: if e.onLog != nil, e.onLog(stream, line); the
\* installed callback writes COMMAND_LOG with the command_id it captured.
CmdLog(k) ==
    /\ cmdPc[k] = "exec"
    /\ cmdLogs[k] < MaxLogs
    /\ cmdLogs' = [cmdLogs EXCEPT ![k] = @ + 1]
    /\ wsent' = IF onLog = NoCmd THEN wsent ELSE SafeWrite(WFrame("COMMAND_LOG", onLog, k, ""))
    /\ UNCHANGED <<stopChan, mainPc, dconn, cmdPc, cmd, onLog,
                   reqPc, reqCid, reqLines, cancelled, streamCancels, stopSeen, nonWorkerVars>>

\* handleDeploy: Execute returned (err == nil or not); sendCommandDone.
CmdDone(k, status) ==
    /\ cmdPc[k] = "exec"
    /\ wsent' = SendCommandDone(k, status, IF status = "success" THEN 0 ELSE 1,
                                 IF status = "success" THEN "" ELSE "execute error")
    /\ cmdPc' = [cmdPc EXCEPT ![k] = "finished"]
    /\ UNCHANGED <<stopChan, mainPc, dconn, cmd, cmdLogs, onLog,
                   reqPc, reqCid, reqLines, cancelled, streamCancels, stopSeen, nonWorkerVars>>

\* stopContainerStream, under streamMu: what it leaves in cancelled and streamCancels.
StopContainerStream(cid) ==
    IF streamCancels[cid] # NoReq
    THEN /\ cancelled' = [cancelled EXCEPT ![streamCancels[cid]] = TRUE]
         /\ streamCancels' = [streamCancels EXCEPT ![cid] = NoReq]
    ELSE UNCHANGED <<cancelled, streamCancels>>

\* handleMessage, case TypeContainerLogsRequest: decode, go d.handleContainerLogsRequest(req).
HandleLogsRequest(r, cid) ==
    /\ mainPc = "loop"
    /\ reqPc[r] = "none"
    /\ \A q \in Reqs : q < r => reqPc[q] # "none"
    /\ reqPc' = [reqPc EXCEPT ![r] = "stopPrior"]
    /\ reqCid' = [reqCid EXCEPT ![r] = cid]
    /\ stopSeen' = [stopSeen EXCEPT ![cid] = FALSE]
    /\ UNCHANGED <<stopChan, mainPc, dconn, wsent, cmdPc, cmd, cmdLogs, onLog,
                   reqLines, cancelled, streamCancels, nonWorkerVars>>

\* handleMessage, case TypeContainerLogsStop: d.stopContainerStream(stop.ContainerID).
HandleLogsStop(cid) ==
    /\ mainPc = "loop"
    /\ \E r \in Reqs : reqPc[r] # "none" /\ reqCid[r] = cid
    /\ StopContainerStream(cid)
    /\ stopSeen' = [stopSeen EXCEPT ![cid] = TRUE]
    /\ UNCHANGED <<stopChan, mainPc, dconn, wsent, cmdPc, cmd, cmdLogs, onLog,
                   reqPc, reqCid, reqLines, nonWorkerVars>>

\* handleContainerLogsRequest: d.stopContainerStream(req.ContainerID).
ReqStopPrior(r) ==
    /\ reqPc[r] = "stopPrior"
    /\ StopContainerStream(reqCid[r])
    /\ reqPc' = [reqPc EXCEPT ![r] = "install"]
    /\ UNCHANGED <<stopChan, mainPc, dconn, wsent, cmdPc, cmd, cmdLogs, onLog,
                   reqCid, reqLines, stopSeen, nonWorkerVars>>

\* handleContainerLogsRequest: context.WithCancel; d.streamCancels[id] = cancel;
\* StreamLogsWithTail is called.
ReqInstall(r) ==
    /\ reqPc[r] = "install"
    /\ streamCancels' = [streamCancels EXCEPT ![reqCid[r]] = r]
    /\ reqPc' = [reqPc EXCEPT ![r] = "select"]
    /\ UNCHANGED <<stopChan, mainPc, dconn, wsent, cmdPc, cmd, cmdLogs, onLog,
                   reqCid, reqLines, cancelled, stopSeen, nonWorkerVars>>

\* StreamLogsWithTail, top of the loop: case <-ctx.Done(): return ctx.Err();
\* default: io.ReadFull blocks.
ReqSelect(r) ==
    /\ reqPc[r] = "select"
    /\ dockerSvc # "nil"
    /\ reqPc' = [reqPc EXCEPT ![r] = IF cancelled[r] THEN "cleanup" ELSE "read"]
    /\ UNCHANGED <<stopChan, mainPc, dconn, wsent, cmdPc, cmd, cmdLogs, onLog,
                   reqCid, reqLines, cancelled, streamCancels, stopSeen, nonWorkerVars>>

\* StreamLogsWithTail: the read returns a line; onLine writes CONTAINER_LOGS_DATA.
ReqLine(r) ==
    /\ reqPc[r] = "read"
    /\ reqLines[r] < MaxLines
    /\ reqLines' = [reqLines EXCEPT ![r] = @ + 1]
    /\ wsent' = SafeWrite(WFrame("CONTAINER_LOGS_DATA", reqCid[r], r, ""))
    /\ reqPc' = [reqPc EXCEPT ![r] = "select"]
    /\ UNCHANGED <<stopChan, mainPc, dconn, cmdPc, cmd, cmdLogs, onLog,
                   reqCid, cancelled, streamCancels, stopSeen, nonWorkerVars>>

\* StreamLogsWithTail: the read fails (EOF, error): return.
ReqEnd(r) ==
    /\ reqPc[r] = "read"
    /\ reqPc' = [reqPc EXCEPT ![r] = "cleanup"]
    /\ UNCHANGED <<stopChan, mainPc, dconn, wsent, cmdPc, cmd, cmdLogs, onLog,
                   reqCid, reqLines, cancelled, streamCancels, stopSeen, nonWorkerVars>>

\* handleContainerLogsRequest's last statement: d.stopContainerStream(req.ContainerID).
ReqCleanup(r) ==
    /\ reqPc[r] = "cleanup"
    /\ StopContainerStream(reqCid[r])
    /\ reqPc' = [reqPc EXCEPT ![r] = "finished"]
    /\ UNCHANGED <<stopChan, mainPc, dconn, wsent, cmdPc, cmd, cmdLogs, onLog,
                   reqCid, reqLines, stopSeen, nonWorkerVars>>

\* handleContainerLogsRequest with d.docker nil: StreamLogsWithTail reads
\* s.client through the nil *Service and panics in a goroutine with no
\* recover; the process ends.
ReqStreamNil(r) ==
    /\ reqPc[r] = "select"
    /\ dockerSvc = "nil"
    /\ mainPc' = "crashed"
    /\ reqPc' = [q \in Reqs |-> IF reqPc[q] = "none" THEN "none" ELSE "crashed"]
    /\ UNCHANGED <<stopChan, dconn, wsent, cmdPc, cmd, cmdLogs, onLog,
                   reqCid, reqLines, cancelled, streamCancels, stopSeen, nonWorkerVars>>

\* The METRICS frame sendMetrics builds: the system metrics and the entries
\* of payload.Containers.
MetricsFrame(containers) ==
    [kind |-> "METRICS", id |-> 0, src |-> 0, status |-> "", containers |-> containers]

\* sendMetrics: if d.docker != nil, ListContainers and one entry for each
\* managed container it returns (none if it fails); safeWrite(METRICS).
SendMetrics(managed) ==
    /\ mainPc = "loop"
    /\ Len(wsent) < MaxWrites
    /\ wsent' = SafeWrite(MetricsFrame(IF dockerSvc = "nil" THEN {} ELSE managed))
    /\ UNCHANGED <<stopChan, mainPc, dconn, cmdPc, cmd, cmdLogs, onLog, reqPc,
                   reqCid, reqLines, cancelled, streamCancels, stopSeen, nonWorkerVars>>

\* The daemon serving log stream requests and sending metrics, with or
\* without the docker service.
DockerNext ==
    \/ Signal
    \/ Connect
    \/ RunReturn
    \/ LoopStop
    \/ \E r \in Reqs, cid \in Containers : HandleLogsRequest(r, cid)
    \/ \E cid \in Containers : HandleLogsStop(cid)
    \/ \E r \in Reqs : ReqStopPrior(r)
    \/ \E r \in Reqs : ReqInstall(r)
    \/ \E r \in Reqs : ReqSelect(r)
    \/ \E r \in Reqs : ReqStreamNil(r)
    \/ \E r \in Reqs : ReqLine(r)
    \/ \E r \in Reqs : ReqEnd(r)
    \/ \E r \in Reqs : ReqCleanup(r)
    \/ \E managed \in SUBSET Containers : SendMetrics(managed)

\* The daemon serving commands.
CommandNext ==
    \/ Signal
    \/ Connect
    \/ RunReturn
    \/ LoopStop
    \/ \E k \in Cmds, payload \in CommandPayload : HandleCommand(k, payload)
    \/ \E k \in Cmds : CmdAck(k)
    \/ \E k \in Cmds : CmdReject(k)
    \/ \E k \in Cmds : CmdStart(k)
    \/ \E k \in Cmds : CmdOnLog(k)
    \/ \E k \in Cmds : CmdLog(k)
    \/ \E k \in Cmds, status \in {"success", "failed"} : CmdDone(k, status)

\* The daemon serving commands that arrive one at a time.
SerialNext ==
    \/ Signal
    \/ Connect
    \/ RunReturn
    \/ LoopStop
    \/ \E k \in Cmds, payload \in CommandPayload : HandleCommandIdle(k, payload)
    \/ \E k \in Cmds : CmdAck(k)
    \/ \E k \in Cmds : CmdReject(k)
    \/ \E k \in Cmds : CmdStart(k)
    \/ \E k \in Cmds : CmdOnLog(k)
    \/ \E k \in Cmds : CmdLog(k)
    \/ \E k \in Cmds, status \in {"success", "failed"} : CmdDone(k, status)

\* The daemon serving container log streams.
StreamNext ==
    \/ Signal
    \/ Connect
    \/ RunReturn
    \/ LoopStop
    \/ \E r \in Reqs, cid \in Containers : HandleLogsRequest(r, cid)
    \/ \E cid \in Containers : HandleLogsStop(cid)
    \/ \E r \in Reqs : ReqStopPrior(r)
    \/ \E r \in Reqs : ReqInstall(r)
    \/ \E r \in Reqs : ReqSelect(r)
    \/ \E r \in Reqs : ReqLine(r)
    \/ \E r \in Reqs : ReqEnd(r)
    \/ \E r \in Reqs : ReqCleanup(r)

----
(***************************************************************************)
(* Frame codec (internal/tcp/protocol: Message, header, Reader, Writer)    *)
(***************************************************************************)

\* A []byte is kept as a sequence of runs [b, n]: n >= 1 bytes of value b, no
\* two adjacent runs of the same value.  A payload of 16 MiB is one run.
RECURSIVE RunLen(_)
RunLen(runs) == IF runs = <<>> THEN 0 ELSE runs[1].n + RunLen(Tail(runs))

RECURSIVE Canon(_)
Canon(runs) ==
    IF Len(runs) < 2 THEN runs
    ELSE IF runs[1].b = runs[2].b
         THEN Canon(<<[b |-> runs[1].b, n |-> runs[1].n + runs[2].n]>> \o Tail(Tail(runs)))
         ELSE <<runs[1]>> \o Canon(Tail(runs))

\* The runs of a sequence of byte values.
Bytes(seq) == Canon([i \in 1..Len(seq) |-> [b |-> seq[i], n |-> 1]])

\* The first k bytes, and what follows them.
RECURSIVE Take(_, _)
Take(runs, k) ==
    IF k = 0 \/ runs = <<>> THEN <<>>
    ELSE IF runs[1].n <= k THEN <<runs[1]>> \o Take(Tail(runs), k - runs[1].n)
         ELSE <<[b |-> runs[1].b, n |-> k]>>

RECURSIVE Drop(_, _)
Drop(runs, k) ==
    IF k = 0 \/ runs = <<>> THEN runs
    ELSE IF runs[1].n <= k THEN Drop(Tail(runs), k - runs[1].n)
         ELSE <<[b |-> runs[1].b, n |-> runs[1].n - k]>> \o Tail(runs)

\* The byte values of a short []byte (a header).
RECURSIVE Expand(_)
Expand(runs) ==
    IF runs = <<>> THEN <<>>
    ELSE IF runs[1].n = 1 THEN <<runs[1].b>> \o Expand(Tail(runs))
         ELSE <<runs[1].b>> \o Expand(<<[b |-> runs[1].b, n |-> runs[1].n - 1]>> \o Tail(runs))

\* binary.BigEndian.PutUint32 / Uint32
PutUint32(v) ==
    <<(v \div 16777216) % 256, (v \div 65536) % 256, (v \div 256) % 256, v % 256>>

Uint32(b) == b[1] * 16777216 + b[2] * 65536 + b[3] * 256 + b[4]

EncodeHeader(msgType, payloadLen) ==
    <<MagicByte1, MagicByte2, Version, msgType>> \o PutUint32(payloadLen)

\* DecodeHeader with the version tested before the magic bytes.
DecodeHeaderVersionFirst(header) ==
    IF Len(header) < HeaderSize
    THEN [err |-> "ErrInvalidHeader", msgType |-> 0, payloadLen |-> 0]
    ELSE IF header[3] # Version
    THEN [err |-> "ErrInvalidVersion", msgType |-> 0, payloadLen |-> 0]
    ELSE IF header[1] # MagicByte1 \/ header[2] # MagicByte2
    THEN [err |-> "ErrInvalidMagic", msgType |-> 0, payloadLen |-> 0]
    ELSE IF Uint32(SubSeq(header, 5, 8)) > MaxPayloadSize
    THEN [err |-> "ErrPayloadTooLarge", msgType |-> 0, payloadLen |-> 0]
    ELSE [err |-> "nil", msgType |-> header[4], payloadLen |-> Uint32(SubSeq(header, 5, 8))]

DecodeHeader(header) ==
    IF Len(header) < HeaderSize
    THEN [err |-> "ErrInvalidHeader", msgType |-> 0, payloadLen |-> 0]
    ELSE IF header[1] # MagicByte1 \/ header[2] # MagicByte2
    THEN [err |-> "ErrInvalidMagic", msgType |-> 0, payloadLen |-> 0]
    ELSE IF header[3] # Version
    THEN [err |-> "ErrInvalidVersion", msgType |-> 0, payloadLen |-> 0]
    ELSE IF Uint32(SubSeq(header, 5, 8)) > MaxPayloadSize
    THEN [err |-> "ErrPayloadTooLarge", msgType |-> 0, payloadLen |-> 0]
    ELSE [err |-> "nil", msgType |-> header[4], payloadLen |-> Uint32(SubSeq(header, 5, 8))]

\* Message.Encode with the length of the payload left out of the header.
EncodeNoLength(m) == Canon(Bytes(EncodeHeader(m.Type, 0)) \o m.Payload)

\* Message.Encode: the header, then the payload.
Encode(m) == Canon(Bytes(EncodeHeader(m.Type, RunLen(m.Payload))) \o m.Payload)

MessageTypes == {TypeMetricsAck, TypePing}
PayloadBytes == {0, MagicByte1}

\* The payloads written: every short one, one of exactly MaxPayloadSize bytes
\* and one of one byte more.
Payloads ==
    {Bytes(p) : p \in UNION {[1..n -> PayloadBytes] : n \in 0..MaxPayloadLen}}
        \cup {<<[b |-> 0, n |-> MaxPayloadSize]>>, <<[b |-> 0, n |-> MaxPayloadSize + 1]>>}

Messages == [Type : MessageTypes, Payload : Payloads]

\* What a peer that does not use Writer puts on the stream: eight header
\* bytes, or fewer.
RawHeaders ==
    {<<m1, m2, v, TypePing>> \o l :
        m1 \in {MagicByte1, 0}, m2 \in {MagicByte2, 0}, v \in {Version, 2},
        l \in {<<0, 0, 0, 0>>, <<0, 0, 0, 1>>, <<1, 0, 0, 0>>, <<1, 0, 0, 1>>}}

ShortHeaders == {SubSeq(EncodeHeader(TypePing, 0), 1, n) : n \in 0..(HeaderSize - 1)}

NoCall == [header |-> <<>>, result |-> [err |-> "", msgType |-> 0, payloadLen |-> 0]]

CodecInit ==
    /\ stream = <<>>
    /\ eof = FALSE
    /\ written = <<>>
    /\ readBack = <<>>
    /\ readErr = "nil"
    /\ raw = FALSE
    /\ decoded = NoCall

\* Writer.Write: msg.Encode(), bufio Write, Flush.
WriteMsg(m) ==
    /\ ~eof
    /\ ~raw
    /\ Len(written) < MaxFrames
    /\ stream' = Canon(stream \o Encode(m))
    /\ written' = Append(written, m)
    /\ UNCHANGED <<eof, readBack, readErr, raw, decoded, nonCodecVars>>

\* A peer writes header bytes of its own making, then one byte more.
PeerWrite(h) ==
    /\ ~eof
    /\ ~raw
    /\ Len(written) <= MaxFramesBeforeRaw
    /\ stream' = Canon(stream \o Bytes(h \o <<MagicByte1>>))
    /\ raw' = TRUE
    /\ UNCHANGED <<eof, written, readBack, readErr, decoded, nonCodecVars>>

\* The writing side closes the stream.
PeerClose ==
    /\ ~eof
    /\ eof' = TRUE
    /\ UNCHANGED <<stream, written, readBack, readErr, raw, decoded, nonCodecVars>>

\* Reader.Read: io.ReadFull of the header, DecodeHeader, io.ReadFull of the
\* payload when payloadLen > 0.  A read that lacks bytes blocks until they
\* arrive or the stream ends.
ReadMsg ==
    /\ readErr = "nil"
    /\ IF RunLen(stream) < HeaderSize
       THEN /\ eof
            /\ readErr' = IF stream = <<>> THEN "EOF" ELSE "ErrUnexpectedEOF"
            /\ stream' = <<>>
            /\ UNCHANGED <<readBack, decoded>>
       ELSE LET header == Expand(Take(stream, HeaderSize))
                d == DecodeHeader(header)
                rest == Drop(stream, HeaderSize)
            IN  /\ decoded' = [header |-> header, result |-> d]
                /\ IF d.err # "nil"
                   THEN /\ readErr' = d.err
                        /\ stream' = rest
                        /\ UNCHANGED readBack
                   ELSE IF RunLen(rest) < d.payloadLen
                   THEN /\ eof
                        /\ readErr' = IF rest = <<>> THEN "EOF" ELSE "ErrUnexpectedEOF"
                        /\ stream' = <<>>
                        /\ UNCHANGED readBack
                   ELSE /\ readBack' = Append(readBack,
                                [Type |-> d.msgType, Payload |-> Take(rest, d.payloadLen)])
                        /\ stream' = Drop(rest, d.payloadLen)
                        /\ UNCHANGED readErr
    /\ UNCHANGED <<eof, written, raw, nonCodecVars>>

\* A call of DecodeHeader with fewer than eight bytes.
DecodeHeaderCall(h) ==
    /\ decoded = NoCall
    /\ written = <<>>
    /\ ~raw
    /\ decoded' = [header |-> h, result |-> DecodeHeader(h)]
    /\ UNCHANGED <<stream, eof, written, readBack, readErr, raw, nonCodecVars>>

\* The bytes of a frame that have arrived when the rest is still on its way:
\* part of the header, the whole header, the header and part of the payload.
ArrivedFirst == {3, HeaderSize, HeaderSize + 1}

\* The messages Writer.Write accepts.
FittingMessages == {m \in Messages : RunLen(m.Payload) <= MaxPayloadSize}

\* Writer.Write on a slow link: the first k bytes of the frame arrive, the
\* others stay on their way.
WriteMsgSlow(m, k) ==
    /\ ~eof
    /\ ~raw
    /\ inFlight = <<>>
    /\ Len(written) < MaxFrames
    /\ stream' = Canon(stream \o Take(Encode(m), k))
    /\ inFlight' = Drop(Encode(m), k)
    /\ written' = Append(written, m)
    /\ UNCHANGED <<eof, readBack, readErr, raw, decoded, dockerSvc, connStart,
                   coordVars, workerVars, msgVars, runVars, srvVars, trigVars, logVars>>

\* The bytes on their way arrive.
Arrive ==
    /\ inFlight # <<>>
    /\ stream' = Canon(stream \o inFlight)
    /\ inFlight' = <<>>
    /\ UNCHANGED <<eof, written, readBack, readErr, raw, decoded, dockerSvc, connStart,
                   coordVars, workerVars, msgVars, runVars, srvVars, trigVars, logVars>>

\* Reader.Read when the read deadline set by readMessages / handleMessages
\* passes while it lacks bytes: io.ReadFull has moved the bytes that arrived
\* into the header or payload slice of this call and returns the timeout;
\* the caller continues with a new call of Read.
ReadTimeout ==
    /\ readErr = "nil"
    /\ ~eof
    /\ IF RunLen(stream) < HeaderSize
       THEN UNCHANGED decoded
       ELSE LET header == Expand(Take(stream, HeaderSize))
                d == DecodeHeader(header)
            IN  /\ d.err = "nil"
                /\ RunLen(Drop(stream, HeaderSize)) < d.payloadLen
                /\ decoded' = [header |-> header, result |-> d]
    /\ stream' = <<>>
    /\ UNCHANGED <<eof, written, readBack, readErr, raw, inFlight, dockerSvc, connStart,
                   coordVars, workerVars, msgVars, runVars, srvVars, trigVars, logVars>>

\* The codec on a slow link, read with a deadline.
SlowNext ==
    \/ \E m \in FittingMessages, k \in ArrivedFirst : WriteMsgSlow(m, k)
    \/ Arrive
    \/ ReadMsg
    \/ ReadTimeout

CodecNext ==
    \/ \E m \in Messages : WriteMsg(m)
    \/ \E h \in RawHeaders \cup ShortHeaders : PeerWrite(h)
    \/ PeerClose
    \/ ReadMsg
    \/ \E h \in ShortHeaders : DecodeHeaderCall(h)

----
(***************************************************************************)
(* Server, frames of a registered session (processMessage and handlers)    *)
(***************************************************************************)

DepIds == {"D1"}
CPUValues == {50, 85, 95}

\* A METRICS frame: its payload decodes or not; System.CPUPercent.  Memory and
\* disk are below their thresholds and no container is reported.
MetricsPayload == [Decodes : BOOLEAN, CPUPercent : CPUValues]

\* A COMMAND_DONE frame's payload.
CommandDonePayload ==
    {[CommandID |-> id, Status |-> st.s, Output |-> st.o] :
        id \in DepIds, st \in {[s |-> "success", o |-> ""], [s |-> "success", o |-> "done"],
                                 [s |-> "failed", o |-> "exit 1"], [s |-> "timeout", o |-> ""]}}

\* logic.CheckCPU: the Message of the high_cpu alert it returns ("": nil).
CheckCPU(cpuPercent) ==
    IF cpuPercent > 90 THEN "CPU usage above 90%"
    ELSE IF cpuPercent > 80 THEN "CPU usage above 80%"
    ELSE ""

AlertMessages == {"CPU usage above 90%", "CPU usage above 80%"}

NoMsg == [kind |-> "none", cpu |-> 0, id |-> "", frame |-> "", status |-> "", output |-> "",
          stage |-> "", active |-> {}, registered |-> FALSE]

MsgInit ==
    /\ handling = [c \in Conns |-> NoMsg]
    /\ storeCPU = [a \in Agents |-> 0]
    /\ alerts = [a \in Agents |-> [m \in AlertMessages |-> 0]]
    /\ deployments = [d \in DepIds |-> "none"]
    /\ deployLogs = [d \in DepIds |-> <<>>]
    /\ critRun = [a \in Agents |-> 0]
    /\ lastFrame = [n |-> 0, c |-> NoConn, kind |-> "", id |-> ""]

\* handleMessages: Receive returns a frame on an open session whose handler is
\* not inside processMessage.
Receives(c) ==
    /\ pc[c] = "active"
    /\ ~closed[c]
    /\ handling[c] = NoMsg
    /\ lastFrame.n < MaxMsgs

Received(c, kind, id) == [n |-> lastFrame.n + 1, c |-> c, kind |-> kind, id |-> id]

\* An UpdateAgentMetrics that writes nothing.
UpdateAgentMetricsSkipped(a, cpu) == storeCPU

\* store.UpdateAgentMetrics: cpu_percent (and status, see StoreOnline).
UpdateAgentMetrics(a, cpu) ==
    IF storeStatus[a] = "none" THEN storeCPU ELSE [storeCPU EXCEPT ![a] = cpu]

\* A handleMetrics that counts the frame as a sign of life and does no more.
HandleMetricsUpdatePing(c, m) ==
    /\ Receives(c)
    /\ lastFrame' = Received(c, "METRICS", "")
    /\ LastPing' = UpdatePing(c)
    /\ UNCHANGED <<handling, storeCPU, alerts, deployments, deployLogs, critRun>>
    /\ UNCHANGED <<now, pc, closed, AgentID, AgentName, token, sent, pingOut, connections,
                   storeStatus, offlineAlerts, tickerPc, conns, lastTick, nonMsgVars>>

\* handleMetrics, up to store.UpdateAgentMetrics; a payload that does not
\* decode ends the handler with nothing written.
HandleMetrics(c, m) ==
    /\ Receives(c)
    /\ lastFrame' = Received(c, "METRICS", "")
    /\ IF m.Decodes
       THEN /\ storeCPU' = UpdateAgentMetrics(AgentID[c], m.CPUPercent)
            /\ storeStatus' = [storeStatus EXCEPT ![AgentID[c]] =
                                    IF @ = "none" THEN "none" ELSE "online"]
            /\ handling' = [handling EXCEPT ![c] =
                    [NoMsg EXCEPT !.kind = "METRICS", !.cpu = m.CPUPercent,
                                  !.stage = "alerts",
                                  !.registered = (connections[AgentID[c]] = c)]]
            /\ critRun' = [critRun EXCEPT ![AgentID[c]] = IF m.CPUPercent > 90 THEN @ ELSE 0]
       ELSE UNCHANGED <<storeCPU, storeStatus, handling, critRun>>
    /\ UNCHANGED <<alerts, deployments, deployLogs>>
    /\ UNCHANGED <<now, pc, closed, AgentID, AgentName, LastPing, token, sent, pingOut,
                   connections, offlineAlerts, tickerPc, conns, lastTick, nonMsgVars>>

\* handleMetrics: store.GetActiveAlerts and the activeAlertMap of this worker's
\* unresolved alerts, keyed by Message.
MetricsGetActiveAlerts(c) ==
    /\ handling[c].kind = "METRICS"
    /\ handling[c].stage = "alerts"
    /\ handling' = [handling EXCEPT ![c].stage = "check",
                        ![c].active = {m \in AlertMessages : alerts[AgentID[c]][m] > 0}]
    /\ UNCHANGED <<storeCPU, alerts, deployments, deployLogs, critRun, lastFrame,
                   coordVars, nonMsgVars>>

\* store.CreateAlert: a plain INSERT.
CreateAlert(a, m) == [alerts EXCEPT ![a][m] = @ + 1]

\* handleMetrics: createIfNotExists(logic.CheckCPU(...)).
MetricsCreateAlerts(c) ==
    /\ handling[c].kind = "METRICS"
    /\ handling[c].stage = "check"
    /\ LET alert == CheckCPU(handling[c].cpu)
       IN  alerts' = IF alert # "" /\ alert \notin handling[c].active
                     THEN CreateAlert(AgentID[c], alert)
                     ELSE alerts
    /\ handling' = [handling EXCEPT ![c].stage = "ack"]
    /\ UNCHANGED <<storeCPU, deployments, deployLogs, critRun, lastFrame,
                   coordVars, nonMsgVars>>

\* handleMetrics: conn.Send(METRICS_ACK); the handler returns.
MetricsAck(c) ==
    /\ handling[c].kind = "METRICS"
    /\ handling[c].stage = "ack"
    /\ sent' = Send(c, Frame("METRICS_ACK", "", ""))
    /\ handling' = [handling EXCEPT ![c] = NoMsg]
    /\ critRun' = [critRun EXCEPT ![AgentID[c]] =
                        IF handling[c].cpu > 90 THEN (IF @ < 2 THEN @ + 1 ELSE @) ELSE 0]
    /\ UNCHANGED <<storeCPU, alerts, deployments, deployLogs, lastFrame>>
    /\ UNCHANGED <<now, pc, closed, AgentID, AgentName, LastPing, token, pingOut,
                   connections, storeStatus, offlineAlerts, tickerPc, conns, lastTick,
                   nonMsgVars>>

\* store.ResolveAlert, from the alerts view: one unresolved alert is resolved.
ResolveAlert(a, m) ==
    /\ alerts[a][m] > 0
    /\ alerts' = [alerts EXCEPT ![a][m] = @ - 1]
    /\ critRun' = [critRun EXCEPT ![a] = 0]
    /\ UNCHANGED <<handling, storeCPU, deployments, deployLogs, lastFrame,
                   coordVars, nonMsgVars>>

\* store.CreateDeployment, from the deploy endpoints: a row with status pending.
CreateDeployment(d) ==
    /\ deployments[d] = "none"
    /\ deployments' = [deployments EXCEPT ![d] = "pending"]
    /\ UNCHANGED <<handling, storeCPU, alerts, deployLogs, critRun, lastFrame,
                   coordVars, nonMsgVars>>

\* store.AddDeploymentLog: a plain INSERT.
AddDeploymentLog(id, line, streamType) ==
    [deployLogs EXCEPT ![id] = Append(@, [Line |-> line, Stream |-> streamType])]

\* The head of handleCommandAck, handleCommandStart and handleCommandDone:
\* deploy, _ := store.GetDeployment(id); the handler goes on to UpdateDeployment
\* with status `to` when `update` holds of the row read, else returns.  `frame`
\* is the status the frame carries.
GetDeployment(c, kind, id, update, frame, to, output) ==
    /\ lastFrame' = Received(c, kind, id)
    /\ handling' = IF deployments[id] # "none" /\ update
                   THEN [handling EXCEPT ![c] =
                            [NoMsg EXCEPT !.kind = kind, !.id = id, !.frame = frame, !.status = to,
                                          !.output = output, !.stage = "update"]]
                   ELSE handling
    /\ UNCHANGED <<storeCPU, alerts, deployments, deployLogs, critRun,
                   coordVars, nonMsgVars>>

\* handleCommandAck: a pending deployment becomes running.
HandleCommandAck(c, id) ==
    /\ Receives(c)
    /\ GetDeployment(c, "COMMAND_ACK", id, deployments[id] = "pending", "", "running", "")

\* handleCommandStart: the deployment becomes running.
HandleCommandStart(c, id) ==
    /\ Receives(c)
    /\ GetDeployment(c, "COMMAND_START", id, TRUE, "", "running", "")

\* A handleCommandDone that takes the status from the frame, row or no row.
HandleCommandDoneSynthesized(c, done) ==
    /\ Receives(c)
    /\ lastFrame' = Received(c, "COMMAND_DONE", done.CommandID)
    /\ deployments' = [deployments EXCEPT ![done.CommandID] = done.Status]
    /\ UNCHANGED <<handling, storeCPU, alerts, deployLogs, critRun, coordVars, nonMsgVars>>

\* handleCommandDone: success or failed, the output, the end time.
HandleCommandDone(c, done) ==
    /\ Receives(c)
    /\ GetDeployment(c, "COMMAND_DONE", done.CommandID, TRUE, done.Status,
                     IF done.Status = "success" THEN "success" ELSE "failed", done.Output)

\* store.UpdateDeployment (an UPDATE by id), and for COMMAND_DONE with an
\* output store.AddDeploymentLog; the handler returns.
UpdateDeployment(c) ==
    /\ handling[c].stage = "update"
    /\ deployments' = [deployments EXCEPT ![handling[c].id] =
                            IF @ = "none" THEN "none" ELSE handling[c].status]
    /\ deployLogs' = IF handling[c].kind = "COMMAND_DONE" /\ handling[c].output # ""
                     THEN AddDeploymentLog(handling[c].id, handling[c].output,
                            IF handling[c].status = "failed" THEN "stderr" ELSE "stdout")
                     ELSE deployLogs
    /\ handling' = [handling EXCEPT ![c] = NoMsg]
    /\ UNCHANGED <<storeCPU, alerts, critRun, lastFrame, coordVars, nonMsgVars>>

\* handleCommandLog: store.AddDeploymentLog, whatever the command id.
HandleCommandLog(c, id) ==
    /\ Receives(c)
    /\ lastFrame' = Received(c, "COMMAND_LOG", id)
    /\ deployLogs' = AddDeploymentLog(id, "line", "stdout")
    /\ UNCHANGED <<handling, storeCPU, alerts, deployments, critRun, coordVars, nonMsgVars>>

\* The sessions' handlers with the frames of registered sessions, the clock
\* standing still: a handler inside processMessage reads nothing.
MsgNext ==
    \/ \E c \in Conns : Accept(c)
    \/ \E c \in Conns, t \in KnownTokens : AuthStore(c, t)
    \/ \E c \in Conns : AuthOK(c)
    \/ \E c \in Conns : AddConnection(c)
    \/ \E c \in Conns : handling[c] = NoMsg /\ RecvDisconnect(c)
    \/ \E c \in Conns : handling[c] = NoMsg /\ RecvError(c)
    \/ \E c \in Conns : HandlerExit(c)
    \/ \E c \in Conns, m \in MetricsPayload : HandleMetrics(c, m)
    \/ \E c \in Conns : MetricsGetActiveAlerts(c)
    \/ \E c \in Conns : MetricsCreateAlerts(c)
    \/ \E c \in Conns : MetricsAck(c)
    \/ \E a \in Agents, m \in AlertMessages : ResolveAlert(a, m)
    \/ \E d \in DepIds : CreateDeployment(d)
    \/ \E c \in Conns, id \in DepIds : HandleCommandAck(c, id)
    \/ \E c \in Conns, id \in DepIds : HandleCommandStart(c, id)
    \/ \E c \in Conns, done \in CommandDonePayload : HandleCommandDone(c, done)
    \/ \E c \in Conns : UpdateDeployment(c)
    \/ \E c \in Conns, id \in DepIds : HandleCommandLog(c, id)

----
(***************************************************************************)
(* The worker daemon's life cycle (internal/agent/daemon): Run's reconnect *)
(* loop, connect, runLoop and its readMessages goroutine, stop.            *)
(***************************************************************************)
RunInit ==
    /\ attempts = 0
    /\ readerPc = "none"
    /\ rmsg = ""
    /\ ctxDone = FALSE
    /\ msgChan = <<>>
    /\ errChan = FALSE
    /\ inbox = <<>>
    /\ peer = "none"
    /\ peerFrames = 0

\* The task variables of the daemon, which the life cycle leaves alone.
taskVars == <<cmdPc, cmd, cmdLogs, onLog, reqPc, reqCid, reqLines, stopSeen>>

\* The frames the coordinator writes on a session of this model.
PeerKinds == {"PING", "DISCONNECT"}

\* Run's loop, default branch: stop is not signalled, connect() is called.
RunDefault ==
    /\ mainPc = "run"
    /\ ~stopChan
    /\ attempts < MaxAttempts
    /\ mainPc' = "connecting"
    /\ attempts' = attempts + 1
    /\ UNCHANGED <<stopChan, dconn, wsent, cancelled, streamCancels, taskVars,
                   readerPc, rmsg, ctxDone, msgChan, errChan, inbox, peer, peerFrames,
                   coordVars, codecVars, msgVars, srvVars, trigVars, logVars, auxVars>>

\* connect() fails: the dial fails (d.conn keeps its value) or authenticate
\* fails (d.conn is the closed stream); Run logs and sleeps ReconnectSec.
ConnectError ==
    /\ mainPc = "connecting"
    /\ mainPc' = "sleep"
    /\ \E c \in {dconn, "closed"} : dconn' = c
    /\ UNCHANGED <<stopChan, wsent, cancelled, streamCancels, taskVars, runVars,
                   coordVars, codecVars, msgVars, srvVars, trigVars, logVars, auxVars>>

\* time.Sleep(ReconnectSec) ends; continue.
SleepEnd ==
    /\ mainPc = "sleep"
    /\ mainPc' = "run"
    /\ UNCHANGED <<stopChan, dconn, wsent, cancelled, streamCancels, taskVars, runVars,
                   coordVars, codecVars, msgVars, srvVars, trigVars, logVars, auxVars>>

\* connect() succeeds and runLoop starts: a new ctx, msgChan and errChan,
\* go d.readMessages, the first sendMetrics.
ConnectDone ==
    /\ mainPc = "connecting"
    /\ mainPc' = "loop"
    /\ dconn' = "open"
    /\ wsent' = Append(wsent, WFrame("METRICS", 0, 0, ""))
    /\ readerPc' = "head"
    /\ rmsg' = ""
    /\ ctxDone' = FALSE
    /\ msgChan' = <<>>
    /\ errChan' = FALSE
    /\ inbox' = <<>>
    /\ peer' = "up"
    /\ UNCHANGED <<stopChan, cancelled, streamCancels, taskVars, attempts, peerFrames,
                   coordVars, codecVars, msgVars, srvVars, trigVars, logVars, auxVars>>

\* runLoop, case <-d.stopChan: cancel(); d.disconnect(); return.
RunLoopStop ==
    /\ mainPc = "loop"
    /\ stopChan
    /\ ctxDone' = TRUE
    /\ Disconnect
    /\ mainPc' = "run"
    /\ UNCHANGED <<stopChan, taskVars, attempts, readerPc, rmsg, msgChan, errChan,
                   inbox, peer, peerFrames, coordVars, codecVars, msgVars, srvVars, trigVars, logVars, auxVars>>

\* runLoop, case err := <-errChan: cancel(); d.disconnect(); return.
RunLoopErr ==
    /\ mainPc = "loop"
    /\ errChan
    /\ errChan' = FALSE
    /\ ctxDone' = TRUE
    /\ Disconnect
    /\ mainPc' = "run"
    /\ UNCHANGED <<stopChan, taskVars, attempts, readerPc, rmsg, msgChan,
                   inbox, peer, peerFrames, coordVars, codecVars, msgVars, srvVars, trigVars, logVars, auxVars>>

\* runLoop, case msg := <-msgChan: handleMessage.  TypePing: safeWrite(Pong()),
\* the error dropped.  TypeDisconnect: d.disconnect(), and the loop goes on.
RunLoopMsg ==
    /\ mainPc = "loop"
    /\ msgChan # <<>>
    /\ msgChan' = Tail(msgChan)
    /\ IF Head(msgChan) = "DISCONNECT"
         THEN Disconnect
         ELSE /\ wsent' = SafeWrite(WFrame("PONG", 0, 0, ""))
              /\ UNCHANGED <<dconn, cancelled, streamCancels>>
    /\ UNCHANGED <<stopChan, mainPc, taskVars, attempts, readerPc, rmsg, ctxDone, errChan,
                   inbox, peer, peerFrames, coordVars, codecVars, msgVars, srvVars, trigVars, logVars, auxVars>>

\* runLoop, case <-metricsTicker.C: sendMetrics, the write error only logged.
RunLoopTick ==
    /\ mainPc = "loop"
    /\ Len(wsent) < MaxWrites
    /\ wsent' = SafeWrite(WFrame("METRICS", 0, 0, ""))
    /\ UNCHANGED <<stopChan, mainPc, dconn, cancelled, streamCancels, taskVars, runVars,
                   coordVars, codecVars, msgVars, srvVars, trigVars, logVars, auxVars>>

\* The daemon's process is running.
Running == mainPc \notin {"exited", "crashed"}

\* readMessages, the select at the head of its loop: ctx.Done() if the ctx is
\* cancelled, the default branch otherwise.
ReadSelect ==
    /\ Running
    /\ readerPc = "head"
    /\ readerPc' = IF ctxDone THEN "done" ELSE "deadline"
    /\ UNCHANGED <<workerVars, attempts, rmsg, ctxDone, msgChan, errChan, inbox, peer,
                   peerFrames, coordVars, codecVars, msgVars, srvVars, trigVars, logVars, auxVars>>

\* readMessages, d.conn.SetReadDeadline: d.conn is read without synchronisation
\* while disconnect() assigns nil to it.  The reader sees the stream (closed
\* or not) and goes on to d.reader.Read() ...
ReadDeadline ==
    /\ Running
    /\ readerPc = "deadline"
    /\ readerPc' = "read"
    /\ UNCHANGED <<workerVars, attempts, rmsg, ctxDone, msgChan, errChan, inbox, peer,
                   peerFrames, coordVars, codecVars, msgVars, srvVars, trigVars, logVars, auxVars>>

\* ... or it sees nil: the method call on the nil interface panics in a
\* goroutine with no recover, and the process ends.
ReadDeadlinePanic ==
    /\ Running
    /\ readerPc = "deadline"
    /\ dconn = "nil"
    /\ readerPc' = "done"
    /\ mainPc' = "crashed"
    /\ UNCHANGED <<stopChan, dconn, wsent, cancelled, streamCancels, taskVars,
                   attempts, rmsg, ctxDone, msgChan, errChan, inbox, peer,
                   peerFrames, coordVars, codecVars, msgVars, srvVars, trigVars, logVars, auxVars>>

\* readMessages, d.reader.Read(): an error if the daemon has closed the stream;
\* else the next frame; else EOF if the coordinator has closed; else the one
\* second deadline passes (continue).
ReadFrame ==
    /\ Running
    /\ readerPc = "read"
    /\ IF dconn # "open"
         THEN readerPc' = "err" /\ UNCHANGED <<rmsg, inbox>>
         ELSE IF inbox # <<>>
                THEN readerPc' = "msg" /\ rmsg' = Head(inbox) /\ inbox' = Tail(inbox)
                ELSE /\ readerPc' = IF peer = "closed" THEN "err" ELSE "head"
                     /\ UNCHANGED <<rmsg, inbox>>
    /\ UNCHANGED <<workerVars, attempts, ctxDone, msgChan, errChan, peer,
                   peerFrames, coordVars, codecVars, msgVars, srvVars, trigVars, logVars, auxVars>>

\* readMessages, select { case msgChan <- msg: ; case <-ctx.Done(): return }:
\* either ready case may be taken.
ReaderSendMsg ==
    /\ Running
    /\ readerPc = "msg"
    /\ rmsg' = ""
    /\ \/ /\ msgChan' = Append(msgChan, rmsg)
          /\ readerPc' = "head"
       \/ /\ ctxDone
          /\ readerPc' = "done"
          /\ UNCHANGED msgChan
    /\ UNCHANGED <<workerVars, attempts, ctxDone, errChan, inbox, peer,
                   peerFrames, coordVars, codecVars, msgVars, srvVars, trigVars, logVars, auxVars>>

\* readMessages, select { case errChan <- err: ; case <-ctx.Done(): }; return.
ReaderSendErr ==
    /\ Running
    /\ readerPc = "err"
    /\ readerPc' = "done"
    /\ \/ errChan' = TRUE
       \/ ctxDone /\ UNCHANGED errChan
    /\ UNCHANGED <<workerVars, attempts, rmsg, ctxDone, msgChan, inbox, peer,
                   peerFrames, coordVars, codecVars, msgVars, srvVars, trigVars, logVars, auxVars>>

\* The coordinator writes a frame on the session.
PeerSend(kind) ==
    /\ peer = "up"
    /\ peerFrames < MaxPeerFrames
    /\ inbox' = Append(inbox, kind)
    /\ peerFrames' = peerFrames + 1
    /\ UNCHANGED <<workerVars, attempts, readerPc, rmsg, ctxDone, msgChan, errChan, peer,
                   coordVars, codecVars, msgVars, srvVars, trigVars, logVars, auxVars>>

\* The coordinator closes the session, or the transport fails.
PeerDown ==
    /\ peer = "up"
    /\ peer' = "closed"
    /\ UNCHANGED <<workerVars, attempts, readerPc, rmsg, ctxDone, msgChan, errChan, inbox,
                   peerFrames, coordVars, codecVars, msgVars, srvVars, trigVars, logVars, auxVars>>

\* The steps of the daemon's own goroutines.
RunStep ==
    \/ RunDefault
    \/ ConnectError
    \/ SleepEnd
    \/ ConnectDone
    \/ RunLoopStop
    \/ RunLoopErr
    \/ RunLoopMsg
    \/ RunReturn
    \/ ReadSelect
    \/ ReadDeadline
    \/ ReadFrame
    \/ ReaderSendMsg
    \/ ReaderSendErr

RunNext ==
    \/ RunStep
    \/ ReadDeadlinePanic
    \/ RunLoopTick
    \/ Signal
    \/ \E kind \in PeerKinds : PeerSend(kind)
    \/ PeerDown

----
(***************************************************************************)
(* Daemon.connect and Daemon.authenticate, statement by statement.         *)
(***************************************************************************)

\* What authenticate reads as the coordinator's response: a frame of one of
\* these kinds (an AUTH_OK whose payload decodes or not), or the read fails.
AuthResponses == {"AUTH_OK", "AUTH_OK undecodable", "AUTH_FAIL", "ERROR", "PING", "read error"}

\* connect: the dial fails; Run logs and sleeps ReconnectSec.
DialError ==
    /\ mainPc = "connecting"
    /\ mainPc' = "sleep"
    /\ UNCHANGED <<stopChan, dconn, wsent, cancelled, streamCancels, taskVars, runVars,
                   coordVars, codecVars, msgVars, srvVars, trigVars, logVars, auxVars>>

\* connect: the dial succeeds; d.conn, d.reader and d.writer are those of the
\* new stream; authenticate is called.
DialDone ==
    /\ mainPc = "connecting"
    /\ mainPc' = "auth"
    /\ dconn' = "open"
    /\ connStart' = Len(wsent)
    /\ UNCHANGED <<stopChan, wsent, cancelled, streamCancels, taskVars, runVars,
                   inFlight, dockerSvc,
                   coordVars, codecVars, msgVars, srvVars, trigVars, logVars>>

\* An authenticate that sends METRICS where AUTH is due.
AuthWriteMetrics ==
    /\ mainPc = "auth"
    /\ mainPc' = "authRead"
    /\ wsent' = Append(wsent, WFrame("METRICS", 0, 0, ""))
    /\ UNCHANGED <<stopChan, dconn, cancelled, streamCancels, taskVars, runVars,
                   coordVars, codecVars, msgVars, srvVars, trigVars, logVars, auxVars>>

\* authenticate: d.writer.WriteWithTimeout(AUTH{token, hostname, version}).
AuthWrite ==
    /\ mainPc = "auth"
    /\ mainPc' = "authRead"
    /\ wsent' = Append(wsent, WFrame("AUTH", 0, 0, ""))
    /\ UNCHANGED <<stopChan, dconn, cancelled, streamCancels, taskVars, runVars,
                   coordVars, codecVars, msgVars, srvVars, trigVars, logVars, auxVars>>

\* authenticate: the write of AUTH fails; connect closes the stream.
AuthWriteError ==
    /\ mainPc = "auth"
    /\ mainPc' = "sleep"
    /\ dconn' = "closed"
    /\ UNCHANGED <<stopChan, wsent, cancelled, streamCancels, taskVars, runVars,
                   coordVars, codecVars, msgVars, srvVars, trigVars, logVars, auxVars>>

\* authenticate: d.reader.ReadWithTimeout(10 s).  On an AUTH_OK that decodes
\* connect returns nil and runLoop starts (reader goroutine, first
\* sendMetrics); on anything else connect closes the stream and returns the
\* error.
AuthResponse(resp) ==
    /\ mainPc = "authRead"
    /\ IF resp = "AUTH_OK"
       THEN /\ mainPc' = "loop"
            /\ wsent' = Append(wsent, WFrame("METRICS", 0, 0, ""))
            /\ readerPc' = "head"
            /\ rmsg' = ""
            /\ ctxDone' = FALSE
            /\ msgChan' = <<>>
            /\ errChan' = FALSE
            /\ inbox' = <<>>
            /\ peer' = "up"
            /\ UNCHANGED dconn
       ELSE /\ mainPc' = "sleep"
            /\ dconn' = "closed"
            /\ UNCHANGED <<wsent, readerPc, rmsg, ctxDone, msgChan, errChan, inbox, peer>>
    /\ UNCHANGED <<stopChan, cancelled, streamCancels, taskVars, attempts, peerFrames,
                   coordVars, codecVars, msgVars, srvVars, trigVars, logVars, auxVars>>

----
(***************************************************************************)
(* DeploymentService.TriggerDeploy (internal/services) and                 *)
(* Server.SendCommand, one call, next to the coordinator's sessions.       *)
(***************************************************************************)
TrigInit ==
    /\ trigPc = "idle"
    /\ trigAgent = NoAgent
    /\ trigErr = ""
    /\ depOutput = [d \in DepIds |-> ""]

\* The deployment id the call generates.
TrigId == CHOOSE d \in DepIds : TRUE

\* Server.IsAgentConnected
IsAgentConnected(a) == connections[a] # NoConn

\* TriggerDeploy up to the deployment record: ErrAgentNotConnected if the
\* worker is not in the registry, ErrRepoNotFound if the repository is not
\* configured; nothing is created in either case.
TriggerCheck(a, repoFound) ==
    /\ trigPc = "idle"
    /\ trigAgent' = a
    /\ IF ~IsAgentConnected(a)
         THEN trigPc' = "returned" /\ trigErr' = "agent is not connected"
         ELSE IF ~repoFound
                THEN trigPc' = "returned" /\ trigErr' = "repository not found"
                ELSE trigPc' = "create" /\ trigErr' = ""
    /\ UNCHANGED <<depOutput, coordVars, workerVars, codecVars, msgVars, runVars, srvVars, logVars, auxVars>>

\* TriggerDeploy: store.CreateDeployment with Status = DeployPending.
TriggerCreate ==
    /\ trigPc = "create"
    /\ deployments' = [deployments EXCEPT ![TrigId] = "pending"]
    /\ trigPc' = "send"
    /\ UNCHANGED <<trigAgent, trigErr, depOutput, handling, storeCPU, alerts, deployLogs,
                   critRun, lastFrame, coordVars, workerVars, codecVars, runVars, srvVars, logVars, auxVars>>

\* A failure branch that leaves the deployment record as it is.
FailDeploymentSkipped(id) == deployments

\* TriggerDeploy's failure branch: Status = DeployFailed, store.UpdateDeployment.
FailDeployment(id) == [deployments EXCEPT ![id] = "failed"]

\* What Server.SendCommand can return: "agent not connected" if the registry
\* has no entry, else what conn.Send returns.
SendCommandErr(a) ==
    IF connections[a] = NoConn THEN {"agent not connected"} ELSE SendErr(connections[a])

\* TriggerDeploy: SendCommand, then either the failure branch (the record
\* becomes Failed with the error text as output, the error is returned) or
\* the return of the deployment.
TriggerSend(e) ==
    /\ trigPc = "send"
    /\ e \in SendCommandErr(trigAgent)
    /\ trigPc' = "returned"
    /\ trigErr' = e
    /\ IF e = "nil"
         THEN /\ sent' = Send(connections[trigAgent], Frame("COMMAND", TrigId, "deploy"))
              /\ UNCHANGED <<deployments, depOutput>>
         ELSE /\ deployments' = FailDeployment(TrigId)
              /\ depOutput' = [depOutput EXCEPT ![TrigId] = "Failed to send command: " \o e]
              /\ UNCHANGED sent
    /\ UNCHANGED <<trigAgent, now, pc, closed, AgentID, AgentName, LastPing, token, pingOut,
                   connections, storeStatus, offlineAlerts, tickerPc, conns, lastTick,
                   handling, storeCPU, alerts, deployLogs, critRun, lastFrame,
                   workerVars, codecVars, runVars, srvVars, logVars, auxVars>>

----
(***************************************************************************)
(* The coordinator with writes that fail on an open session.               *)
(***************************************************************************)
SrvInit ==
    /\ sendFailedAt = [c \in Conns |-> -1]
    /\ stopPc = "running"

\* pingAll, one iteration whose conn.Send(protocol.Ping()) fails in
\* Writer.WriteWithTimeout (the worker does not drain its socket for ten
\* seconds): pingAll drops the error and goes on to the next session.
PingOneWriteError(c) ==
    /\ tickerPc = "loop"
    /\ c \in conns
    /\ ~PingExpired(c)
    /\ "write error" \in SendErr(c)
    /\ sendFailedAt' = [sendFailedAt EXCEPT ![c] = now]
    /\ conns' = conns \ {c}
    /\ tickerPc' = IF conns' = {} THEN "wait" ELSE "loop"
    /\ UNCHANGED <<now, pc, closed, AgentID, AgentName, LastPing, token, sent, pingOut,
                   connections, storeStatus, offlineAlerts, lastTick, stopPc,
                   workerVars, codecVars, msgVars, runVars, trigVars, logVars, auxVars>>

----
(***************************************************************************)
(* Server.Stop and what the goroutines of the coordinator do with s.done.  *)
(***************************************************************************)

\* Stop: close(s.done); s.listener.Close().
StopClose ==
    /\ stopPc = "running"
    /\ stopPc' = "closing"
    /\ UNCHANGED <<coordVars, sendFailedAt, workerVars, codecVars, msgVars, runVars, trigVars, logVars, auxVars>>

\* The sessions in the registry.
Registered == {connections[a] : a \in Agents} \ {NoConn}

\* Stop, under s.mu: conn.Send(protocol.Disconnect()) and conn.Close() for
\* every session of the registry, which it leaves as it is; return nil.
StopSessions ==
    /\ stopPc = "closing"
    /\ stopPc' = "stopped"
    /\ sent' = [c \in Conns |-> IF c \in Registered
                                   THEN Send(c, Frame("DISCONNECT", "", ""))[c] ELSE sent[c]]
    /\ closed' = [c \in Conns |-> closed[c] \/ c \in Registered]
    /\ UNCHANGED <<now, pc, AgentID, AgentName, LastPing, token, pingOut, connections,
                   storeStatus, offlineAlerts, tickerPc, conns, lastTick,
                   sendFailedAt, workerVars, codecVars, msgVars, runVars, trigVars, logVars, auxVars>>

\* acceptRequests: listener.Accept() returns a connection while the listener
\* is open; go s.handleConnection(conn).
AcceptRequests(c) ==
    /\ stopPc = "running"
    /\ Accept(c)

\* handleMessages, case <-s.done: return.
RecvDone(c) ==
    /\ stopPc # "running"
    /\ pc[c] = "active"
    /\ pc' = [pc EXCEPT ![c] = "exiting"]
    /\ UNCHANGED <<now, closed, AgentID, AgentName, LastPing, token, sent, pingOut,
                   connections, storeStatus, offlineAlerts, tickerPc, conns, lastTick, nonCoordVars>>

\* authenticate returns: one of its outcomes for the frame read or the error
\* of the read, which has a deadline.
AuthStep(c) ==
    \/ AuthReadError(c)
    \/ AuthWrongKind(c)
    \/ AuthBadPayload(c)
    \/ \E t \in Tokens : AuthInvalidToken(c, t)
    \/ \E t \in Tokens : AuthStore(c, t)

----
(***************************************************************************)
(* What the coordinator and the worker log and what the alerts say, in two *)
(* runs that go through the same events and differ in the token strings:   *)
(* the worker-config table of run 2 has the tokens of AgentTableB.         *)
(***************************************************************************)
Runs == {1, 2}

AgentTableB == [t \in {"U1", "U2"} |->
                 IF t = "U1" THEN AgentTable["T1"] ELSE AgentTable["T2"]]

TableOf(r) == IF r = 1 THEN AgentTable ELSE AgentTableB

\* The token the worker `who` is configured with in run r; "none" is a worker
\* whose token is in no table.
TokenFor(r, who) ==
    IF who = "W1" THEN (IF r = 1 THEN "T1" ELSE "U1")
    ELSE IF who = "W2" THEN (IF r = 1 THEN "T2" ELSE "U2")
    ELSE (IF r = 1 THEN "Tx" ELSE "Ux")

\* Config.GetAgentByToken on the table of a run.
LookupToken(table, t) ==
    IF t \in DOMAIN table THEN table[t] ELSE [ID |-> NoAgent, Name |-> ""]

LogInit ==
    /\ logPc = [r \in Runs |-> "start"]
    /\ runTok = [r \in Runs |-> ""]
    /\ logLines = [r \in Runs |-> <<>>]
    /\ alertBodies = [r \in Runs |-> <<>>]
    /\ logEvents = 0

\* A line that carries the token.
AuthenticatingLogWithToken(t) == "[AGENT] authenticating with token " \o t

\* Daemon.authenticate: logger.Debug("[AGENT] authenticating with token"),
\* with d.cfg.Token = t.
AuthenticatingLog(t) == "[AGENT] authenticating with token"

\* Server.authenticate's error for auth.Token = t not in the table, as
\* handleConnection logs it.
AuthFailedLog(t) == "[TCP] auth failed for addr: " \o "invalid token"

\* The worker's lines for an AUTH_FAIL with the given reason.
RejectedLogs(reason) ==
    <<"[AGENT] authentication rejected: " \o reason,
      "[AGENT] connection failed: auth: auth rejected: " \o reason,
      "[AGENT] reconnecting">>

\* The lines of a successful authentication for the table entry cfg.
ConnectedLogs(cfg) ==
    <<"[TCP] agent " \o cfg.Name \o " connected",
      "[AGENT] authentication successful",
      "[AGENT] connected as '" \o cfg.Name \o "' (ID: " \o cfg.ID \o ")">>

\* logic.CheckOffline
CheckOffline(agentID, agentName) ==
    [AgentID |-> agentID, Type |-> "agent_offline", Message |-> "Agent " \o agentName \o " is offline"]

\* connect(): the worker dials and sends AUTH with its token.
LogConnect(who) ==
    /\ logEvents < MaxEvents
    /\ \A r \in Runs : logPc[r] = "start"
    /\ logPc' = [r \in Runs |-> "auth"]
    /\ runTok' = [r \in Runs |-> TokenFor(r, who)]
    /\ logLines' = [r \in Runs |->
                      logLines[r] \o <<"[AGENT] connecting to addr", AuthenticatingLog(runTok'[r])>>]
    /\ logEvents' = logEvents + 1
    /\ UNCHANGED <<alertBodies, coordVars, workerVars, codecVars, msgVars, runVars, srvVars, trigVars, auxVars>>

\* Server.authenticate with the worker's AUTH, and the worker's end of it.
LogAuthenticate ==
    /\ \A r \in Runs : logPc[r] = "auth"
    /\ logPc' = [r \in Runs |->
                   IF LookupToken(TableOf(r), runTok[r]).ID = NoAgent THEN "start" ELSE "active"]
    /\ logLines' = [r \in Runs |->
                      LET cfg == LookupToken(TableOf(r), runTok[r])
                      IN  IF cfg.ID = NoAgent
                            THEN logLines[r] \o <<AuthFailedLog(runTok[r])>> \o RejectedLogs("invalid token")
                            ELSE logLines[r] \o ConnectedLogs(cfg)]
    /\ UNCHANGED <<runTok, alertBodies, logEvents,
                   coordVars, workerVars, codecVars, msgVars, runVars, srvVars, trigVars, auxVars>>

\* handleMetrics for a METRICS frame of the session: the alert it creates.
LogMetrics(cpu) ==
    /\ logEvents < MaxEvents
    /\ \A r \in Runs : logPc[r] = "active"
    /\ alertBodies' = [r \in Runs |->
                         LET cfg == LookupToken(TableOf(r), runTok[r])
                         IN  IF CheckCPU(cpu) = "" THEN alertBodies[r]
                             ELSE Append(alertBodies[r],
                                         [AgentID |-> cfg.ID, Type |-> "high_cpu", Message |-> CheckCPU(cpu)])]
    /\ logEvents' = logEvents + 1
    /\ UNCHANGED <<logPc, runTok, logLines,
                   coordVars, workerVars, codecVars, msgVars, runVars, srvVars, trigVars, auxVars>>

\* The session ends: pingAll's timeout branch or the handler's exit, then
\* removeConnection with its alert; the worker logs its read error.
LogSessionEnd(timeout) ==
    /\ \A r \in Runs : logPc[r] = "active"
    /\ logPc' = [r \in Runs |-> "start"]
    /\ logLines' = [r \in Runs |->
                      LET cfg == LookupToken(TableOf(r), runTok[r])
                      IN  logLines[r]
                            \o (IF timeout THEN <<"[TCP] agent " \o cfg.Name \o " ping timeout, disconnecting">>
                                           ELSE <<>>)
                            \o <<"[TCP] agent " \o cfg.Name \o " disconnected", "[AGENT] read error">>]
    /\ alertBodies' = [r \in Runs |->
                         LET cfg == LookupToken(TableOf(r), runTok[r])
                         IN  Append(alertBodies[r], CheckOffline(cfg.ID, cfg.Name))]
    /\ UNCHANGED <<runTok, logEvents,
                   coordVars, workerVars, codecVars, msgVars, runVars, srvVars, trigVars, auxVars>>

LogNext ==
    \/ \E who \in {"W1", "W2", "none"} : LogConnect(who)
    \/ LogAuthenticate
    \/ \E cpu \in CPUValues : LogMetrics(cpu)
    \/ \E timeout \in BOOLEAN : LogSessionEnd(timeout)

----
\* New with docker enabled and reachable: d.docker is the service.
AuxInit ==
    /\ inFlight = <<>>
    /\ dockerSvc = "svc"
    /\ connStart = 0

Init ==
    /\ CoordInit /\ WorkerInit /\ CodecInit /\ MsgInit
    /\ RunInit /\ SrvInit /\ TrigInit /\ LogInit /\ AuxInit

Next ==
    \/ \E c \in Conns : Accept(c)
    \/ \E c \in Conns : AuthReadError(c)
    \/ \E c \in Conns : AuthWrongKind(c)
    \/ \E c \in Conns : AuthBadPayload(c)
    \/ \E c \in Conns, t \in Tokens : AuthInvalidToken(c, t)
    \/ \E c \in Conns : AuthClose(c)
    \/ \E c \in Conns, t \in Tokens : AuthStore(c, t)
    \/ \E c \in Conns : AuthOK(c)
    \/ \E c \in Conns : AddConnection(c)
    \/ \E c \in Conns : RecvPong(c)
    \/ \E c \in Conns : RecvDisconnect(c)
    \/ \E c \in Conns : RecvTimeout(c)
    \/ \E c \in Conns : RecvError(c)
    \/ \E c \in Conns : HandlerExit(c)
    \/ Tick
    \/ \E c \in Conns : PingOne(c)
    \/ AdvanceTime

\* The METRICS frames of a worker whose CPU is below every threshold.
QuietMetrics == {m \in MetricsPayload : m.CPUPercent = 50}

\* The coordinator's sessions, delivering PONG, DISCONNECT, METRICS and
\* COMMAND_* frames (of deployments the store does not hold), and the
\* liveness ticker.
LivenessNext ==
    \/ \E c \in Conns : Accept(c)
    \/ \E c \in Conns, t \in KnownTokens : AuthStore(c, t)
    \/ \E c \in Conns : AuthOK(c)
    \/ \E c \in Conns : AddConnection(c)
    \/ \E c \in Conns : handling[c] = NoMsg /\ RecvPong(c)
    \/ \E c \in Conns : handling[c] = NoMsg /\ RecvDisconnect(c)
    \/ \E c \in Conns, id \in DepIds : HandleCommandAck(c, id)
    \/ \E c \in Conns, id \in DepIds : HandleCommandStart(c, id)
    \/ \E c \in Conns, done \in CommandDonePayload : HandleCommandDone(c, done)
    \/ \E c \in Conns, id \in DepIds : HandleCommandLog(c, id)
    \/ \E c \in Conns, m \in QuietMetrics : HandleMetrics(c, m)
    \/ \E c \in Conns : MetricsGetActiveAlerts(c)
    \/ \E c \in Conns : MetricsCreateAlerts(c)
    \/ \E c \in Conns : MetricsAck(c)
    \/ Tick
    \/ \E c \in Conns : PingOne(c)
    \/ AdvanceTime

\* The frames whose payload the coordinator's handlers decode, METRICS apart.
CoordDecodedKinds ==
    {"COMMAND_ACK", "COMMAND_START", "COMMAND_LOG", "COMMAND_DONE", "CONTAINER_LOGS_DATA"}

\* A handler that answers a payload it cannot decode with an ERROR frame.
HandleUndecodableReply(c, kind) ==
    /\ Receives(c)
    /\ lastFrame' = Received(c, kind, "")
    /\ sent' = Send(c, Frame("ERROR", "400", "invalid payload"))
    /\ UNCHANGED <<handling, storeCPU, alerts, deployments, deployLogs, critRun>>
    /\ UNCHANGED <<now, pc, closed, AgentID, AgentName, LastPing, token, pingOut, connections,
                   storeStatus, offlineAlerts, tickerPc, conns, lastTick, nonMsgVars>>

\* handleCommandAck, handleCommandStart, handleCommandLog, handleCommandDone
\* and processMessage's case TypeContainerLogsData on a payload that
\* msg.Decode rejects: the handler returns.
HandleUndecodable(c, kind) ==
    /\ Receives(c)
    /\ lastFrame' = Received(c, kind, "")
    /\ UNCHANGED <<handling, storeCPU, alerts, deployments, deployLogs, critRun,
                   coordVars, nonMsgVars>>

\* The frames whose payload the daemon's handleMessage decodes.
DaemonDecodedKinds == {"COMMAND", "CONTAINER_LOGS_REQUEST", "CONTAINER_LOGS_STOP"}

\* The daemon reads a frame of the coordinator and handleMessage runs on a
\* payload that msg.Decode rejects: the error is logged (for COMMAND the
\* handler returns) and no task is started.
DaemonUndecodable(kind) ==
    /\ mainPc = "loop"
    /\ dconn = "open"
    /\ peerFrames < MaxPeerFrames
    /\ peerFrames' = peerFrames + 1
    /\ rmsg' = kind
    /\ UNCHANGED <<workerVars, attempts, readerPc, ctxDone, msgChan, errChan, inbox, peer,
                   coordVars, codecVars, msgVars, srvVars, trigVars, logVars, auxVars>>

\* Sessions and a daemon that are sent frames with payloads that decode and
\* payloads that do not.
DecodeNext ==
    \/ \E c \in Conns : Accept(c)
    \/ \E c \in Conns, t \in KnownTokens : AuthStore(c, t)
    \/ \E c \in Conns : AuthOK(c)
    \/ \E c \in Conns : AddConnection(c)
    \/ \E c \in Conns, m \in MetricsPayload : HandleMetrics(c, m)
    \/ \E c \in Conns : MetricsGetActiveAlerts(c)
    \/ \E c \in Conns : MetricsCreateAlerts(c)
    \/ \E c \in Conns : MetricsAck(c)
    \/ \E d \in DepIds : CreateDeployment(d)
    \/ \E c \in Conns, kind \in CoordDecodedKinds : HandleUndecodable(c, kind)
    \/ Connect
    \/ \E kind \in DaemonDecodedKinds : DaemonUndecodable(kind)

\* The coordinator of Spec, and a daemon connecting and authenticating.
HandshakeNext ==
    \/ Next
    \/ RunDefault
    \/ DialError
    \/ DialDone
    \/ AuthWrite
    \/ AuthWriteError
    \/ \E resp \in AuthResponses : AuthResponse(resp)
    \/ SleepEnd

TriggerNext ==
    \/ Next
    \/ \E a \in Agents, repoFound \in BOOLEAN : TriggerCheck(a, repoFound)
    \/ TriggerCreate
    \/ \E e \in {"nil", "agent not connected", "ErrClosed", "write error"} : TriggerSend(e)

StopNext ==
    \/ \E c \in Conns : AcceptRequests(c)
    \/ \E c \in Conns : AuthReadError(c)
    \/ \E c \in Conns : AuthWrongKind(c)
    \/ \E c \in Conns : AuthBadPayload(c)
    \/ \E c \in Conns, t \in Tokens : AuthInvalidToken(c, t)
    \/ \E c \in Conns : AuthClose(c)
    \/ \E c \in Conns, t \in Tokens : AuthStore(c, t)
    \/ \E c \in Conns : AuthOK(c)
    \/ \E c \in Conns : AddConnection(c)
    \/ \E c \in Conns : RecvPong(c)
    \/ \E c \in Conns : RecvDisconnect(c)
    \/ \E c \in Conns : RecvTimeout(c)
    \/ \E c \in Conns : RecvError(c)
    \/ \E c \in Conns : RecvDone(c)
    \/ \E c \in Conns : HandlerExit(c)
    \/ Tick
    \/ \E c \in Conns : PingOne(c)
    \/ AdvanceTime
    \/ StopClose
    \/ StopSessions

SendFailNext ==
    \/ Next
    \/ \E c \in Conns : PingOneWriteError(c)

Spec == Init /\ [][Next]_vars

SpecCommand == Init /\ [][CommandNext]_vars

SpecSerial == Init /\ [][SerialNext]_vars

SpecStreams == Init /\ [][StreamNext]_vars

SpecCodec == Init /\ [][CodecNext]_vars

SpecMessages == Init /\ [][MsgNext]_vars

SpecSlowStream == Init /\ [][SlowNext]_vars

SpecLiveness == Init /\ [][LivenessNext]_vars

SpecHandshake == Init /\ [][HandshakeNext]_vars

SpecDecode == Init /\ [][DecodeNext]_vars

\* New with docker disabled or unreachable (d.docker nil), or with the service.
InitDocker ==
    /\ CoordInit /\ WorkerInit /\ CodecInit /\ MsgInit
    /\ RunInit /\ SrvInit /\ TrigInit /\ LogInit
    /\ inFlight = <<>>
    /\ connStart = 0
    /\ dockerSvc \in {"nil", "svc"}

SpecDocker == InitDocker /\ [][DockerNext]_vars

SpecSendFail == Init /\ [][SendFailNext]_vars

SpecTrigger == Init /\ [][TriggerNext]_vars

SpecLogs == Init /\ [][LogNext]_vars

SpecStop == Init /\ [][StopNext]_vars

\* The handler goroutines keep running and Stop runs to its end: authenticate
\* returns (its read has a deadline), and each statement that follows in a
\* handler is executed.
SpecStopFair ==
    /\ SpecStop
    /\ WF_vars(StopSessions)
    /\ \A c \in Conns :
          /\ WF_vars(AuthStep(c)) /\ WF_vars(AuthClose(c)) /\ WF_vars(AuthOK(c))
          /\ WF_vars(AddConnection(c)) /\ WF_vars(RecvDone(c)) /\ WF_vars(HandlerExit(c))

SpecRun == Init /\ [][RunNext]_vars

\* The daemon's goroutines keep running: each step of Run, runLoop and
\* readMessages that stays possible is taken; a sleep and an attempt to connect
\* end (the dial and the frame reads of authenticate have deadlines).
SpecRunFair ==
    /\ SpecRun
    /\ WF_vars(RunDefault) /\ WF_vars(ConnectError \/ ConnectDone) /\ WF_vars(SleepEnd)
    /\ WF_vars(RunLoopStop) /\ WF_vars(RunLoopErr) /\ WF_vars(RunLoopMsg) /\ WF_vars(RunReturn)
    /\ WF_vars(ReadSelect) /\ WF_vars(ReadDeadline \/ ReadDeadlinePanic) /\ WF_vars(ReadFrame)
    /\ WF_vars(ReaderSendMsg) /\ WF_vars(ReaderSendErr)

----
(***************************************************************************)
(* Properties of the coordinator (Spec)                                    *)
(***************************************************************************)

\* C1: when a prior session's handler finishes exiting (its deferred
\* de-registration runs) while a newer session of the same worker-id is
\* registered and open, the registry entry for that worker-id is still the
\* newer session and the newer session is still open.
C1_PriorExitKeepsNewer ==
    [][\A c \in Conns :
        (/\ pc[c] = "exiting"
         /\ pc'[c] = "done"
         /\ connections[AgentID[c]] \notin {NoConn, c}
         /\ ~closed[connections[AgentID[c]]])
        => (/\ connections'[AgentID[c]] = connections[AgentID[c]]
            /\ ~closed'[connections[AgentID[c]]])]_vars

\* A newer session of worker W1 is registered and open while the prior
\* session's handler is about to run its deferred de-registration.
C1_PriorExitingNewerRegistered ==
    \E c, d \in Conns :
        /\ c # d
        /\ pc[c] = "exiting"
        /\ AgentID[c] = "W1"
        /\ connections["W1"] = d
        /\ pc[d] = "active"
        /\ ~closed[d]

C3_ResponsiveWorkerKept ==
    /\ [](\A c \in Conns :
            (pc[c] = "active" /\ ~closed[c] /\ AgentID[c] \in Responsive)
                => now - LastPing[c] <= PongTimeout)
    /\ [][\A c \in Conns :
            (/\ tickerPc = "loop"
             /\ c \in conns
             /\ c \notin conns'
             /\ AgentID[c] \in Responsive)
            => (/\ now - LastPing[c] <= PongTimeout
                /\ connections' = connections
                /\ closed' = closed)]_vars

\* A session of the responsive worker is registered and open after two ticks,
\* having been sent two PINGs.
C3_ResponsiveAfterTwoTicks ==
    \E c \in Conns :
        /\ AgentID[c] \in Responsive
        /\ connections[AgentID[c]] = c
        /\ pc[c] = "active"
        /\ ~closed[c]
        /\ tickerPc = "wait"
        /\ lastTick = 2 * PingInterval
        /\ Len(SelectSeq(sent[c], LAMBDA f : f.kind = "PING")) = 2
        /\ ~pingOut[c]

\* C4 (as stated): once AUTH_OK has been written to an open session, the
\* registry entry of its worker-id is that session and the store shows the
\* worker online.
C4_AuthOKImpliesRegistered ==
    \A c \in Conns :
        (/\ ~closed[c]
         /\ pc[c] \in {"authed", "active"}
         /\ \E i \in 1..Len(sent[c]) : sent[c][i].kind = "AUTH_OK")
        => (/\ connections[AgentID[c]] = c
            /\ storeStatus[AgentID[c]] = "online")

\* C4 (amended): an AUTH_OK frame is the first frame of its session and carries
\* the agent_id and name configured for the session's token; the store shows
\* the worker online when authenticate has written it, which is before
\* AUTH_OK is written; and the session is registered by the handler's next
\* step after AUTH_OK, which leaves the registry entry of that worker-id,
\* and of no other, holding the session.
C4_AuthOKThenRegistered ==
    /\ [](\A c \in Conns :
            /\ \A i \in 1..Len(sent[c]) :
                sent[c][i].kind = "AUTH_OK" =>
                    /\ i = 1
                    /\ token[c] \in KnownTokens
                    /\ sent[c][i].a = AgentTable[token[c]].ID
                    /\ sent[c][i].b = AgentTable[token[c]].Name
            /\ pc[c] \in {"authed", "active"} =>
                /\ Len(sent[c]) >= 1
                /\ sent[c][1].kind = "AUTH_OK"
                /\ AgentID[c] = AgentTable[token[c]].ID
            /\ pc[c] \in {"auth", "authStored"} => sent[c] = <<>>)
    /\ [][\A c \in Conns :
            (pc[c] = "auth" /\ pc'[c] = "authStored")
                => storeStatus'[AgentTable[token'[c]].ID] = "online"]_vars
    /\ [][\A c \in Conns :
            (pc[c] = "authed" /\ pc'[c] # "authed")
                => (/\ pc'[c] = "active"
                    /\ connections'[AgentID[c]] = c
                    /\ ~closed'[c]
                    /\ \A a \in Agents \ {AgentID[c]} : connections'[a] # c)]_vars

\* A session holds AUTH_OK, is registered and open, and the store shows its
\* worker online.
C4_RegisteredOnline ==
    \E c \in Conns :
        /\ pc[c] = "active"
        /\ ~closed[c]
        /\ sent[c] = <<[kind |-> "AUTH_OK", a |-> "W2", b |-> "staging"]>>
        /\ connections["W2"] = c
        /\ storeStatus["W2"] = "online"

\* C5: a connection whose AUTH carried a token absent from the worker-config
\* table has been written exactly AUTH_FAIL "invalid token", is closed when
\* its handler has returned, is bound to no worker-id and held by no registry
\* entry, and the steps of its handler change neither the store nor the
\* registry.
C5_UnknownTokenRejected ==
    /\ [](\A c \in Conns :
            (token[c] # "" /\ token[c] \notin KnownTokens) =>
                /\ sent[c] = <<[kind |-> "AUTH_FAIL", a |-> "invalid token", b |-> ""]>>
                /\ pc[c] \in {"authFailed", "done"}
                /\ pc[c] = "done" => closed[c]
                /\ AgentID[c] = NoAgent
                /\ \A a \in Agents : connections[a] # c)
    /\ [][\A c \in Conns :
            (token'[c] # "" /\ token'[c] \notin KnownTokens /\ pc'[c] # pc[c])
                => (/\ storeStatus' = storeStatus
                    /\ offlineAlerts' = offlineAlerts
                    /\ connections' = connections)]_vars

\* A connection that presented an unknown token has been closed while another
\* worker's session is registered.
C5_RejectedAndClosed ==
    \E c, d \in Conns :
        /\ token[c] = "Tx"
        /\ pc[c] = "done"
        /\ closed[c]
        /\ connections["W1"] = d
        /\ storeStatus["W1"] = "online"

----
(***************************************************************************)
(* Properties of the worker daemon (SpecCommand, SpecStreams)              *)
(***************************************************************************)

CommandKinds == {"COMMAND_ACK", "COMMAND_START", "COMMAND_LOG", "COMMAND_DONE"}

\* The frames written with command_id k, in order.
CommandFrames(k) == SelectSeq(wsent, LAMBDA f : f.kind \in CommandKinds /\ f.id = k)

\* F is a prefix of COMMAND_ACK, COMMAND_START, COMMAND_LOG*, COMMAND_DONE.
Lifecycle(F) ==
    /\ Len(F) >= 1 => F[1].kind = "COMMAND_ACK"
    /\ Len(F) >= 2 => F[2].kind = "COMMAND_START"
    /\ \A i \in 3..Len(F) : F[i].kind \in {"COMMAND_LOG", "COMMAND_DONE"}
    /\ \A i \in 1..Len(F) :
        F[i].kind = "COMMAND_DONE" => i = Len(F) /\ F[i].status \in {"success", "failed"}

\* F is the whole of it: it ends with its one COMMAND_DONE.
Complete(F) == Len(F) >= 3 /\ F[Len(F)].kind = "COMMAND_DONE"

\* C6 (as stated): for a command of type deploy that is the only one in
\* flight, the frames written with its command_id are, in order, COMMAND_ACK,
\* COMMAND_START, zero or more COMMAND_LOG, and once its task has finished
\* with the connection up, exactly one COMMAND_DONE with status success or
\* failed at the end.
C6_DeployLifecycle ==
    \A k \in Cmds :
        cmd[k].Type = "deploy" =>
            /\ Lifecycle(CommandFrames(k))
            /\ (cmdPc[k] = "finished" /\ dconn = "open") => Complete(CommandFrames(k))

\* C6 (amended): the same, for a command of type deploy whose payload decodes
\* into the deploy configuration.
C6_DecodedDeployLifecycle ==
    \A k \in Cmds :
        (cmd[k].Type = "deploy" /\ cmd[k].Decodes) =>
            /\ Lifecycle(CommandFrames(k))
            /\ (cmdPc[k] = "finished" /\ dconn = "open") => Complete(CommandFrames(k))

\* Two deploys whose payloads decode have run one after the other and finished
\* with the connection up, each having logged a line.
C6_DeploysFinished ==
    /\ \A k \in 1..2 :
        /\ cmd[k] = [Type |-> "deploy", Decodes |-> TRUE]
        /\ cmdPc[k] = "finished"
        /\ Len(CommandFrames(k)) = 4
        /\ CommandFrames(k)[3].kind = "COMMAND_LOG"
    /\ dconn = "open"

\* C7: every COMMAND_LOG frame carries the command_id of the command whose
\* execution produced the line, and no command frame with command_id C is
\* written after COMMAND_DONE{C}.
C7_LogsCarryOwnCommandId ==
    /\ \A i \in 1..Len(wsent) :
        wsent[i].kind = "COMMAND_LOG" => wsent[i].id = wsent[i].src
    /\ \A i, j \in 1..Len(wsent) :
        (i < j /\ wsent[i].kind = "COMMAND_DONE" /\ wsent[j].kind \in CommandKinds)
            => wsent[j].id # wsent[i].id

\* Request r's stream is tailing: StreamLogsWithTail is in its loop.
Tailing(r) == reqPc[r] \in {"select", "read"}

\* C8: of two log-tailing tasks for the same container_id at most one is
\* active: whenever two are tailing, the cancel handle of one of them has
\* been invoked.
C8_OneStreamPerContainer ==
    \A r1, r2 \in Reqs :
        (r1 # r2 /\ reqCid[r1] = reqCid[r2] /\ Tailing(r1) /\ Tailing(r2))
            => (cancelled[r1] \/ cancelled[r2])

\* C9: once a CONTAINER_LOGS_STOP for container C has been processed, and
\* until a new request for C arrives, every task tailing C has had its cancel
\* handle invoked and no CONTAINER_LOGS_DATA with container_id C is written.
C9_NoDataAfterStop ==
    /\ [](\A cid \in Containers :
            stopSeen[cid] =>
                \A r \in Reqs : (reqCid[r] = cid /\ Tailing(r)) => cancelled[r])
    /\ [][\A cid \in Containers :
            (stopSeen[cid] /\ stopSeen'[cid] /\ Len(wsent') > Len(wsent))
                => ~(/\ wsent'[Len(wsent')].kind = "CONTAINER_LOGS_DATA"
                     /\ wsent'[Len(wsent')].id = cid)]_vars

\* C10: the stop step of the run loop invokes every cancel handle the table
\* holds, and the table is empty when Run returns.
C10_TableEmptyAtReturn ==
    /\ [][(mainPc = "loop" /\ mainPc' = "run") =>
            \A cid \in Containers :
                streamCancels[cid] # NoReq => cancelled'[streamCancels[cid]]]_vars
    /\ [][(mainPc = "run" /\ mainPc' = "exited") =>
            \A cid \in Containers : streamCancels'[cid] = NoReq]_vars

----
(***************************************************************************)
(* Registry and store after reconnects (Spec)                              *)
(***************************************************************************)

\* Every session handler has settled: it has returned, or it is blocked in
\* its read on an open session; the ticker is between two passes.
Settled ==
    /\ tickerPc = "wait"
    /\ \A c \in Conns :
        \/ pc[c] \in {"free", "done"}
        \/ pc[c] = "active" /\ ~closed[c]

\* C11: once all session handlers have settled, the store's status of a
\* worker is online if and only if the registry holds a session for it; and a
\* session enters the registry only by its own handler's insert, once (so N
\* tears and reconnects insert at most N+1 sessions).
C11_StoreOnlineIffRegistered ==
    /\ [](Settled =>
            \A a \in Agents : (storeStatus[a] = "online") <=> (connections[a] # NoConn))
    /\ [][\A a \in Agents :
            (connections'[a] # connections[a] /\ connections'[a] # NoConn)
                => pc[connections'[a]] = "authed" /\ pc'[connections'[a]] = "active"]_vars

\* A worker has reconnected after a tear: its first session's handler has
\* returned and its second session is registered and open.
C11_Reconnected ==
    /\ Settled
    /\ pc[1] = "done"
    /\ AgentID[1] = "W1"
    /\ AgentID[2] = "W1"
    /\ connections["W1"] = 2
    /\ ~closed[2]

\* C14: with no alert resolved, at most one unresolved agent_offline alert
\* exists for a worker, whatever the de-registrations.
C14_OneOfflineAlert ==
    \A a \in Agents : offlineAlerts[a] <= 1

\* A worker's second session is registered and open after its first was
\* de-registered, which raised the worker's agent_offline alert.
C14_RegisteredAgainAfterAlert ==
    \E c \in Conns :
        /\ connections["W1"] = c
        /\ ~closed[c]
        /\ pc[c] = "active"
        /\ offlineAlerts["W1"] = 1

\* C19: every session held by the registry, which is what a lookup or the
\* liveness snapshot obtains, has its closed flag false.
C19_RegisteredSessionsOpen ==
    \A a \in Agents : connections[a] # NoConn => ~closed[connections[a]]

----
(***************************************************************************)
(* C16: frames written back-to-back with payloads of at most 16 MiB are    *)
(* read back as exactly the messages written, in order: what has been read *)
(* is a prefix of what was written, all of it once the stream is drained,  *)
(* with no read error other than the end of the stream; a message with an  *)
(* empty payload is encoded as the eight header bytes with length 0 and    *)
(* nothing after them.                                                     *)
(***************************************************************************)
C16_FramesRoundTrip ==
    (~raw /\ \A i \in 1..Len(written) : RunLen(written[i].Payload) <= 16 * 1024 * 1024)
        => /\ Len(readBack) <= Len(written)
           /\ \A i \in 1..Len(readBack) : readBack[i] = written[i]
           /\ stream = <<>> => readBack = written
           /\ readErr \in {"nil", "EOF"}
           /\ readErr = "EOF" => eof /\ readBack = written
           /\ \A i \in 1..Len(written) :
                written[i].Payload = <<>>
                    => /\ RunLen(Encode(written[i])) = 8
                       /\ SubSeq(Expand(Encode(written[i])), 5, 8) = <<0, 0, 0, 0>>

C16_TwoFramesReadBack ==
    /\ ~raw
    /\ Len(written) = 2
    /\ readBack = written
    /\ stream = <<>>
    /\ RunLen(written[1].Payload) = 16 * 1024 * 1024
    /\ written[2].Payload = <<>>

(***************************************************************************)
(* C17: DecodeHeader answers InvalidHeader for fewer than 8 bytes, else    *)
(* InvalidMagic for wrong magic bytes, else UnsupportedVersion for a       *)
(* version other than 1, else PayloadTooLarge for a length above 16 MiB,   *)
(* else no error; and a Read that returns one of these errors has taken    *)
(* exactly the 8 header bytes off the stream and returned no message.      *)
(***************************************************************************)
C17_HeaderErrors == {"ErrInvalidHeader", "ErrInvalidMagic", "ErrInvalidVersion", "ErrPayloadTooLarge"}

C17_HeaderRejectedInOrder ==
    /\ [](decoded # NoCall =>
            LET h == decoded.header
                e == decoded.result.err
            IN  IF Len(h) < 8 THEN e = "ErrInvalidHeader"
                ELSE IF h[1] # 85 \/ h[2] # 70 THEN e = "ErrInvalidMagic"
                ELSE IF h[3] # 1 THEN e = "ErrInvalidVersion"
                ELSE IF h[5] * 16777216 + h[6] * 65536 + h[7] * 256 + h[8] > 16 * 1024 * 1024
                     THEN e = "ErrPayloadTooLarge"
                ELSE e = "nil")
    /\ [][(readErr = "nil" /\ readErr' \in C17_HeaderErrors)
            => /\ stream' = Drop(stream, 8)
               /\ RunLen(stream') = RunLen(stream) - 8
               /\ readBack' = readBack]_vars

C17_RejectedPayloadLeft ==
    /\ readErr = "ErrPayloadTooLarge"
    /\ decoded.header[1] = 85
    /\ Len(readBack) = 1
    /\ stream = <<[b |-> 85, n |-> 1]>>

(***************************************************************************)
(* C18: a Write of a message whose payload is larger than 16 MiB puts      *)
(* nothing on the stream.                                                  *)
(***************************************************************************)
C18_OversizeNotWritten ==
    [][(Len(written') > Len(written)
            /\ RunLen(written'[Len(written')].Payload) > 16 * 1024 * 1024)
        => stream' = stream]_vars

C18_OversizeOnStream ==
    /\ ~raw
    /\ Len(written) = 1
    /\ RunLen(written[1].Payload) > 16 * 1024 * 1024
    /\ RunLen(stream) = 8 + RunLen(written[1].Payload)

(***************************************************************************)
(* C20: Close on an open connection sets the closed flag; on a closed      *)
(* connection Close changes nothing and returns nil, and Send returns the  *)
(* connection-closed error and writes nothing; no step of the server       *)
(* reopens a closed connection or adds a frame to its stream.              *)
(***************************************************************************)
C20_CloseIdempotentSendFails ==
    /\ [](\A c \in Conns :
            /\ Close(c)[c]
            /\ closed[c] =>
                /\ Close(c) = closed
                /\ CloseErr(c) = {"nil"}
                /\ Send(c, Frame("PING", "", "")) = sent
                /\ SendErr(c) = {"ErrClosed"})
    /\ [][\A c \in Conns : closed[c] => closed'[c] /\ sent'[c] = sent[c]]_vars

C20_ClosedSessionInPingLoop ==
    \E c \in Conns :
        /\ closed[c]
        /\ pc[c] = "active"
        /\ tickerPc = "loop"
        /\ c \in conns
        /\ ~PingExpired(c)

----
(***************************************************************************)
(* Properties of the frame handlers (SpecMessages)                         *)
(***************************************************************************)

MetricsAckFrame == Frame("METRICS_ACK", "", "")

\* c's handler returns from handleMetrics in this step.
MetricsHandled(c) == handling[c].kind = "METRICS" /\ handling'[c] = NoMsg

\* C12 as stated: for every METRICS frame decoded on a session that is
\* registered when the frame is read, the worker's metrics fields in the store
\* are updated and exactly one METRICS_ACK is written on that session.
C12_AckForEveryMetrics ==
    [][\A c \in Conns :
        /\ (lastFrame' # lastFrame /\ lastFrame'.c = c /\ handling'[c].kind = "METRICS")
              => storeCPU'[AgentID[c]] = handling'[c].cpu
        /\ (MetricsHandled(c) /\ handling[c].registered)
              => sent'[c] = Append(sent[c], MetricsAckFrame)]_vars

\* C12, with the session's state at the reply: for every METRICS frame decoded
\* on a session, the worker's metrics fields in the store are updated; when
\* the handler returns, exactly one METRICS_ACK is written on that session if
\* the session is still open and nothing if it was closed meanwhile; no
\* METRICS_ACK is written otherwise.
C12_AckWhenStillOpen ==
    [][\A c \in Conns :
        /\ (lastFrame' # lastFrame /\ lastFrame'.c = c /\ handling'[c].kind = "METRICS")
              => storeCPU'[AgentID[c]] = handling'[c].cpu
        /\ MetricsHandled(c)
              => sent'[c] = IF closed[c] THEN sent[c] ELSE Append(sent[c], MetricsAckFrame)
        /\ (sent'[c] # sent[c] /\ sent'[c][Len(sent'[c])] = MetricsAckFrame)
              => MetricsHandled(c) /\ Len(sent'[c]) = Len(sent[c]) + 1]_vars

C12_MetricsAcked ==
    \E c \in Conns :
        /\ connections["W1"] = c
        /\ ~closed[c]
        /\ handling[c] = NoMsg
        /\ lastFrame.c = c
        /\ lastFrame.kind = "METRICS"
        /\ storeCPU["W1"] = 95
        /\ sent[c][Len(sent[c])] = MetricsAckFrame

\* C13: when two METRICS frames of a worker with CPU above the critical
\* threshold have been handled in a row with no alert of the worker resolved in
\* between, the worker has at most one unresolved high_cpu alert.
C13_OneHighCpuAlert ==
    \A a \in Agents :
        critRun[a] = 2
            => alerts[a]["CPU usage above 90%"] + alerts[a]["CPU usage above 80%"] <= 1

C13_TwoCriticalFramesHandled ==
    /\ critRun["W1"] = 2
    /\ alerts["W1"]["CPU usage above 90%"] = 1

\* C15: a COMMAND_DONE frame read when the store has no deployment under its
\* command id changes neither the deployment table nor the deployment logs,
\* leaves no update pending, and leaves the session as open and as registered
\* as it was; a deployment row comes into being only through CreateDeployment,
\* as pending.
C15_UnknownCommandDoneIgnored ==
    [][/\ (/\ lastFrame' # lastFrame
           /\ lastFrame'.kind = "COMMAND_DONE"
           /\ deployments[lastFrame'.id] = "none")
          => /\ deployments' = deployments
             /\ deployLogs' = deployLogs
             /\ handling' = handling
             /\ closed' = closed
             /\ connections' = connections
             /\ pc' = pc
       /\ \A d \in DepIds :
            (deployments[d] = "none" /\ deployments'[d] # "none")
                => deployments'[d] = "pending" /\ lastFrame' = lastFrame]_vars

C15_UnknownDoneSessionKept ==
    /\ lastFrame.kind = "COMMAND_DONE"
    /\ deployments[lastFrame.id] = "none"
    /\ deployLogs[lastFrame.id] = <<>>
    /\ pc[lastFrame.c] = "active"
    /\ ~closed[lastFrame.c]
    /\ connections[AgentID[lastFrame.c]] = lastFrame.c

\* C30: the UpdateDeployment of a COMMAND_DONE handler leaves the deployment
\* Success exactly when the frame's status is "success" and Failed otherwise,
\* and appends a non-empty output as one log line, stdout on Success and
\* stderr on Failed; the handler of a COMMAND_ACK changes a deployment's
\* status only from Pending to Running.
C30_DoneAndAckStatus ==
    [][\A c \in Conns :
        (handling[c].stage = "update" /\ handling'[c] = NoMsg) =>
            LET id == handling[c].id
                ok == handling[c].frame = "success"
            IN  /\ handling[c].kind = "COMMAND_DONE" =>
                    /\ deployments'[id] = IF ok THEN "success" ELSE "failed"
                    /\ deployLogs'[id] =
                          IF handling[c].output # ""
                          THEN Append(deployLogs[id],
                                      [Line |-> handling[c].output,
                                       Stream |-> IF ok THEN "stdout" ELSE "stderr"])
                          ELSE deployLogs[id]
                /\ (handling[c].kind = "COMMAND_ACK" /\ deployments'[id] # deployments[id])
                      => deployments[id] = "pending" /\ deployments'[id] = "running"]_vars

C30_AckAfterDone ==
    \E c \in Conns :
        /\ handling[c].kind = "COMMAND_ACK"
        /\ handling[c].stage = "update"
        /\ deployments[handling[c].id] \in {"success", "failed"}

\* C22: when the handler of a METRICS frame whose CPU is not above any
\* threshold returns, the worker has no unresolved high_cpu alert left: the
\* alerts raised by earlier frames have been resolved by the handler.
C22_AlertResolvedWhenCleared ==
    [][\A c \in Conns :
        (MetricsHandled(c) /\ CheckCPU(handling[c].cpu) = "")
            => \A m \in AlertMessages : alerts'[AgentID[c]][m] = 0]_vars

C22_AlertOutlivesCondition ==
    \E c \in Conns :
        /\ connections["W1"] = c
        /\ handling[c] = NoMsg
        /\ lastFrame.c = c
        /\ lastFrame.kind = "METRICS"
        /\ storeCPU["W1"] = 50
        /\ critRun["W1"] = 0
        /\ alerts["W1"]["CPU usage above 90%"] = 1

----
(***************************************************************************)
(* Properties of the coordinator, continued (Spec)                         *)
(***************************************************************************)

----
(***************************************************************************)
(* Properties of the worker daemon, continued (SpecCommand)                *)
(***************************************************************************)

\* C28: for a command whose type is not deploy or whose deploy payload does
\* not decode, the frames written with its command_id are COMMAND_ACK and then
\* one COMMAND_DONE with status "failed", exit_code 1 and a non-empty output
\* (both of them once the task has finished with the connection up), and never
\* a COMMAND_START or a COMMAND_LOG.
C28_RejectedCommandFrames ==
    \A k \in Cmds :
        (cmdPc[k] # "none" /\ (cmd[k].Type # "deploy" \/ ~cmd[k].Decodes)) =>
            LET F == CommandFrames(k)
            IN  /\ Len(F) <= 2
                /\ Len(F) >= 1 => F[1].kind = "COMMAND_ACK"
                /\ Len(F) = 2 =>
                      /\ F[2].kind = "COMMAND_DONE"
                      /\ F[2].status = "failed"
                      /\ F[2].exitCode = 1
                      /\ F[2].output # ""
                /\ (cmdPc[k] = "finished" /\ dconn = "open") => Len(F) = 2

C28_RejectedWhileDeployRuns ==
    /\ dconn = "open"
    /\ cmd[1] = [Type |-> "deploy", Decodes |-> TRUE]
    /\ cmdPc[1] = "exec"
    /\ cmdLogs[1] = 1
    /\ cmd[2] = [Type |-> "deploy", Decodes |-> FALSE]
    /\ cmdPc[2] = "finished"
    /\ Len(CommandFrames(2)) = 2

----
(***************************************************************************)
(* Properties of the worker daemon's life cycle (SpecRun, SpecRunFair)     *)
(***************************************************************************)
DisconnectFrame == WFrame("DISCONNECT", 0, 0, "")

\* The reader of the current run loop has met the end of the session: a
\* read error other than a timeout, or the coordinator's DISCONNECT.
SessionEnds == mainPc = "loop" /\ (readerPc = "err" \/ rmsg = "DISCONNECT")

\* C26: whenever the session of an Active worker ends (a DISCONNECT of the
\* coordinator or a read error that is not a timeout) and stop is not
\* signalled, the run loop returns with the connection torn down and the
\* worker calls connect() again, unless stop is signalled in the meantime.
C26_SessionEndLeadsToConnect ==
    \A n \in 1..(MaxAttempts - 1) :
        (SessionEnds /\ ~stopChan /\ attempts = n) ~> (attempts > n \/ stopChan)

C26_CrashedAfterDisconnect ==
    /\ mainPc = "crashed"
    /\ ~stopChan
    /\ attempts = 1
    /\ dconn = "nil"
    /\ peerFrames = 1
    /\ wsent[Len(wsent)] = DisconnectFrame

\* C27: after the stop signal Run eventually returns, from connecting, from
\* the sleep between attempts and from the run loop; once Run's loop is at its
\* select with stop signalled it makes no call of connect(); and a run loop
\* that returns with stop signalled and the stream open has written DISCONNECT
\* and closed the stream.
C27_StopEndsRun ==
    /\ [][(stopChan /\ mainPc = "run") => (mainPc' # "connecting" /\ attempts' = attempts)]_vars
    /\ [][(stopChan /\ mainPc = "loop" /\ mainPc' = "run" /\ dconn = "open") =>
              (wsent' = Append(wsent, DisconnectFrame) /\ dconn' = "nil")]_vars
    /\ stopChan ~> (mainPc = "exited")

C27_CrashedWhileStopping ==
    /\ mainPc = "crashed"
    /\ stopChan
    /\ ctxDone
    /\ peer = "up"
    /\ peerFrames = 0
    /\ wsent[Len(wsent)] = DisconnectFrame

----
(***************************************************************************)
(* Properties of the coordinator with failing writes (SpecSendFail)        *)
(***************************************************************************)

\* C25: a session on which a serialized send has failed is terminated: once
\* the step that made the send is over, the session is closed and the
\* registry does not hold it.
C25_FailedSendTerminates ==
    \A c \in Conns :
        sendFailedAt[c] >= 0 => (closed[c] /\ connections[AgentID[c]] # c)

\* After a failed ping the session is still open and registered, and a later
\* ping was written on it and answered.
C25_SessionServedAfterFailedSend ==
    \E c \in Conns :
        /\ sendFailedAt[c] >= 0
        /\ pc[c] = "active"
        /\ ~closed[c]
        /\ connections[AgentID[c]] = c
        /\ LastPing[c] > sendFailedAt[c]

----
(***************************************************************************)
(* Properties of the coordinator's Stop (SpecStop, SpecStopFair)           *)
(***************************************************************************)

\* C29: when Stop returns, a DISCONNECT was attempted on every registered
\* session (written, if the session was open) and every registered session
\* is closed; after Stop has returned no connection is accepted and none is
\* registered; and eventually every handler has exited and the registry is
\* empty.
C29_StopClosesEverything ==
    /\ [][(stopPc = "closing" /\ stopPc' = "stopped") =>
              \A c \in Registered :
                  /\ closed'[c]
                  /\ ~closed[c] => sent'[c] = Append(sent[c], Frame("DISCONNECT", "", ""))]_vars
    /\ [][stopPc = "stopped" =>
              /\ \A c \in Conns : pc[c] = "free" => pc'[c] = "free"
              /\ \A a \in Agents : connections'[a] \in {connections[a], NoConn}]_vars
    /\ (stopPc = "stopped") ~>
           ((\A a \in Agents : connections[a] = NoConn) /\ (\A c \in Conns : pc[c] \in {"free", "done"}))

\* A session that was reading its AUTH frame when Stop ran is in the registry,
\* open, after Stop has returned.
C29_RegisteredAfterStop ==
    \E c \in Conns :
        /\ stopPc = "stopped"
        /\ pc[c] = "active"
        /\ connections[AgentID[c]] = c
        /\ ~closed[c]
        /\ storeStatus[AgentID[c]] = "online"

----
(***************************************************************************)
(* Properties of TriggerDeploy (SpecTrigger)                               *)
(***************************************************************************)
CommandFrame == Frame("COMMAND", TrigId, "deploy")

CommandWritten == \E c \in Conns : \E i \in 1..Len(sent[c]) : sent[c][i] = CommandFrame

\* C21: a call of TriggerDeploy that has returned without writing the COMMAND
\* (the worker was not in the registry at the check, or its session was gone
\* or closed at the send) has returned an error, and the deployment of the
\* call is not Pending: there is no record, or the record is Failed with the
\* error text in its output.  A call that wrote the COMMAND returned no error.
C21_UndeliveredDeployNotPending ==
    trigPc = "returned" =>
        IF CommandWritten
          THEN trigErr = "nil"
          ELSE /\ trigErr \notin {"", "nil"}
               /\ \/ deployments[TrigId] = "none"
                  \/ /\ deployments[TrigId] = "failed"
                     /\ depOutput[TrigId] = "Failed to send command: " \o trigErr

\* The worker's session left the registry between the check and the send.
C21_DisconnectedBeforeSend ==
    /\ trigPc = "returned"
    /\ trigErr = "agent not connected"
    /\ connections[trigAgent] = NoConn
    /\ deployments[TrigId] = "failed"

----
(***************************************************************************)
(* Properties of the logs (SpecLogs)                                       *)
(***************************************************************************)

----
(***************************************************************************)
(* Properties of the deployment handlers, continued (SpecMessages)         *)
(***************************************************************************)

\* C36: a deployment whose status is success or failed keeps it: the update
\* of a handler of a COMMAND_ACK or COMMAND_START frame and the handling of a
\* COMMAND_LOG frame leave the status of such a deployment as it is.
C36_TerminalStatusKept ==
    [][\A d \in DepIds :
          (/\ deployments[d] \in {"success", "failed"}
           /\ \/ lastFrame'.n # lastFrame.n /\ lastFrame'.kind = "COMMAND_LOG"
              \/ \E c \in Conns : /\ handling[c].stage = "update"
                                  /\ handling'[c] = NoMsg
                                  /\ handling[c].kind \in {"COMMAND_ACK", "COMMAND_START"})
          => deployments'[d] = deployments[d]]_vars

\* The frames of one session, COMMAND_DONE{failed, output} and then
\* COMMAND_START, have left the deployment running with the output logged.
C36_RunningAfterDone ==
    /\ deployments["D1"] = "running"
    /\ deployLogs["D1"] = <<[Line |-> "exit 1", Stream |-> "stderr"]>>
    /\ lastFrame = [n |-> 2, c |-> 1, kind |-> "COMMAND_START", id |-> "D1"]
    /\ pc[2] = "free"

----
(***************************************************************************)
(* Properties of the worker daemon's life cycle, continued (SpecRun)       *)
(***************************************************************************)

\* C38: whenever the reader goroutine uses d.conn (SetReadDeadline at the head
\* of an iteration), d.conn is not nil.
C38_ReaderStreamNonNil ==
    [][(readerPc = "deadline" /\ readerPc' # "deadline") => dconn # "nil"]_vars

\* The run loop has handled a DISCONNECT frame (its ctx is not cancelled, it
\* is still in its loop's select) and the reader has called a method of the
\* nil d.conn.
C38_NilStreamUsedAfterDisconnect ==
    /\ mainPc = "crashed"
    /\ ~ctxDone
    /\ ~errChan
    /\ dconn = "nil"
    /\ peerFrames >= 1
    /\ readerPc = "done"

----
(***************************************************************************)
(* Properties of the container log streams, continued (SpecStreams)        *)
(***************************************************************************)

\* C37: the cleanup of an ending log stream task invokes and removes no other
\* task's cancel handle: a newer stream of the container is not cancelled by
\* it and its handle stays in the table.
C37_CleanupLeavesNewerStream ==
    [][\A r \in Reqs :
          (reqPc[r] = "cleanup" /\ reqPc'[r] = "finished") =>
              \A q \in Reqs \ {r} :
                  /\ cancelled'[q] = cancelled[q]
                  /\ streamCancels[reqCid[r]] = q => streamCancels'[reqCid[r]] = q]_vars

\* Request 2 replaced request 1 on the container; no CONTAINER_LOGS_STOP was
\* handled and the session is up, yet the handle of request 2 was invoked
\* and is gone from the table while its task is still tailing.
C37_NewerStreamCancelledByCleanup ==
    /\ mainPc = "loop"
    /\ ~stopChan
    /\ reqCid[1] = reqCid[2]
    /\ reqPc[1] = "finished"
    /\ Tailing(2)
    /\ cancelled[2]
    /\ streamCancels[reqCid[2]] = NoReq
    /\ ~stopSeen[reqCid[2]]

----
(***************************************************************************)
(* Properties of the frame codec read with a deadline (SpecSlowStream)     *)
(***************************************************************************)

\* b starts with a.
IsPrefix(a, b) == Len(a) <= Len(b) /\ \A i \in 1..Len(a) : a[i] = b[i]

\* C35: a read deadline that passes when part of a frame has arrived loses
\* and corrupts nothing: the reader reports no error, the frames it returns
\* are the frames written, in order, and when every byte written has been
\* consumed every frame written has been returned.
C35_TimeoutKeepsFrames ==
    /\ readErr = "nil"
    /\ IsPrefix(readBack, written)
    /\ (stream = <<>> /\ inFlight = <<>>) => readBack = written

\* One frame was written, all its bytes have arrived and have been consumed,
\* and no frame was returned.
C35_FrameLostAfterTimeout ==
    /\ Len(written) = 1
    /\ stream = <<>>
    /\ inFlight = <<>>
    /\ readBack = <<>>
    /\ readErr = "nil"
    /\ decoded = NoCall

----
(***************************************************************************)
(* Properties of the daemon without the docker service (SpecDocker)        *)
(***************************************************************************)

\* C39: with the docker service absent the daemon is not brought down by it:
\* its METRICS frames carry no container entries, and no step of a log
\* stream task ends the process or the session.
C39_NoDockerKeepsSession ==
    /\ dockerSvc = "nil" => mainPc # "crashed"
    /\ dockerSvc = "nil" =>
          \A i \in 1..Len(wsent) :
              wsent[i].kind = "METRICS" => wsent[i].containers = {}

\* The daemon has no docker service, sent METRICS on its session, was handed
\* a CONTAINER_LOGS_REQUEST, and its process has ended in the stream task.
C39_CrashedOnLogsRequest ==
    /\ dockerSvc = "nil"
    /\ mainPc = "crashed"
    /\ reqPc[1] = "crashed"
    /\ streamCancels[reqCid[1]] = 1
    /\ ~stopChan
    /\ wsent = <<MetricsFrame({})>>

----
(***************************************************************************)
(* Properties of the liveness ticker, continued (Spec)                     *)
(***************************************************************************)

\* C33: the liveness ticker's visit to a session of its snapshot closes and
\* de-registers only a session whose own last-liveness is more than 45 s
\* old: a session of the same worker registered since the snapshot stays
\* registered and open.
C33_TickerRemovesOnlyStale ==
    [][\A c \in Conns :
          (tickerPc = "loop" /\ c \in conns /\ c \notin conns') =>
              \A d \in Conns :
                  (\/ closed'[d] # closed[d]
                   \/ \E a \in Agents : connections[a] = d /\ connections'[a] # d)
                      => now - LastPing[d] > PongTimeout]_vars

\* Worker W2 reconnected on a second connection after the ticker's snapshot:
\* the ticker's visit to the first session has left the second one, whose
\* last-liveness is not 45 s old, closed and out of the registry, with its
\* handler still in the read loop.
C33_ReconnectedSessionRemoved ==
    \E c, d \in Conns :
        /\ c # d
        /\ AgentID[c] = "W2" /\ AgentID[d] = "W2"
        /\ pc[c] = "active" /\ pc[d] = "active"
        /\ LastPing[c] = 0
        /\ now - LastPing[d] <= PongTimeout
        /\ closed[c] /\ closed[d]
        /\ connections["W2"] = NoConn
        /\ offlineAlerts["W2"] = 1
        /\ tickerPc = "wait"
        /\ lastTick = now

----
(***************************************************************************)
(* Properties of a session's last-liveness (SpecLiveness)                  *)
(***************************************************************************)

\* C34: a session's last-liveness changes only when the session is created
\* and when a PONG is received on it; no handler of another frame changes
\* it.  So the ticker's visit to a registered session whose last frame was
\* METRICS and whose last-liveness is more than 45 s old de-registers and
\* closes it, and after a pass of the ticker no registered session has a
\* last-liveness more than 45 s older than the tick.
C34_LivenessOnlyCreationAndPong ==
    /\ [][\A c \in Conns :
            LastPing'[c] # LastPing[c] =>
                \/ pc[c] = "free" /\ pc'[c] = "auth"
                \/ /\ pc[c] = "active"
                   /\ pingOut[c] /\ ~pingOut'[c]
                   /\ lastFrame' = lastFrame
                   /\ handling' = handling]_vars
    /\ [][\A c \in Conns :
            (/\ tickerPc = "loop"
             /\ c \in conns
             /\ c \notin conns'
             /\ connections[AgentID[c]] = c
             /\ lastFrame.c = c /\ lastFrame.kind = "METRICS"
             /\ now - LastPing[c] > PongTimeout)
            => (connections'[AgentID[c]] = NoConn /\ closed'[c])]_vars
    /\ [](tickerPc = "wait" =>
            \A a \in Agents :
                connections[a] # NoConn => lastTick - LastPing[connections[a]] <= PongTimeout)

\* A session accepted at 0 s was sent a PING and never answered it; a METRICS
\* frame of the session was acknowledged after the PING was written; the
\* ticker has de-registered and closed the session at 60 s.
C34_MetricsSenderRemoved ==
    \E c \in Conns :
        /\ pc[c] = "active"
        /\ LastPing[c] = 0
        /\ pingOut[c]
        /\ now = 60
        /\ closed[c]
        /\ connections[AgentID[c]] = NoConn
        /\ offlineAlerts[AgentID[c]] = 1
        /\ lastFrame.c = c /\ lastFrame.kind = "METRICS"
        /\ storeCPU[AgentID[c]] = 50
        /\ Len(sent[c]) = 3
        /\ sent[c][2].kind = "PING"
        /\ sent[c][3].kind = "METRICS_ACK"

----
(***************************************************************************)
(* Properties of the handshake (SpecHandshake)                             *)
(***************************************************************************)

\* The first frame the daemon writes on each stream it dials is AUTH.
WorkerWritesAuthFirst ==
    /\ [](Len(wsent) > connStart => wsent[connStart + 1].kind = "AUTH")
    /\ [][Len(wsent') > Len(wsent) =>
            /\ Len(wsent') = Len(wsent) + 1
            /\ Len(wsent) = connStart' => wsent'[Len(wsent')].kind = "AUTH"]_vars

----
(***************************************************************************)
(* Properties of frames whose payload does not decode (SpecDecode)         *)
(***************************************************************************)

\* The step is session c's handler dropping a frame whose payload did not
\* decode.
DroppedBySession(c) ==
    /\ lastFrame'.n = lastFrame.n + 1
    /\ lastFrame'.c = c
    /\ lastFrame'.id = ""
    /\ handling'[c] = NoMsg

\* The step is the daemon dropping a frame whose payload did not decode.
DroppedByDaemon == peerFrames' = peerFrames + 1 /\ rmsg' \in DaemonDecodedKinds

\* C32: a frame of a handled kind whose payload fails to decode is dropped.
\* On the coordinator the session stays open and registered, no record of
\* the store changes and nothing is written on any session; on the worker
\* the stream stays open, nothing is written on it and no task is started.
C32_UndecodableFrameDropped ==
    [][/\ \A c \in Conns :
            DroppedBySession(c) =>
                /\ pc' = pc /\ closed' = closed /\ connections' = connections
                /\ sent' = sent
                /\ storeStatus' = storeStatus /\ offlineAlerts' = offlineAlerts
                /\ storeCPU' = storeCPU /\ alerts' = alerts
                /\ deployments' = deployments /\ deployLogs' = deployLogs
       /\ DroppedByDaemon =>
                /\ mainPc' = mainPc /\ dconn' = dconn
                /\ wsent' = wsent
                /\ cmdPc' = cmdPc /\ reqPc' = reqPc
                /\ streamCancels' = streamCancels]_vars

\* A registered session with a pending deployment and stored metrics has
\* dropped an undecodable COMMAND_DONE and is open and registered; the daemon
\* has dropped an undecodable COMMAND, has started no task and is in its run
\* loop on an open stream.
C32_UndecodableFramesDropped ==
    /\ lastFrame.n = 2
    /\ lastFrame.kind = "COMMAND_DONE"
    /\ lastFrame.id = ""
    /\ deployments["D1"] = "pending"
    /\ \E c \in Conns :
        /\ lastFrame.c = c
        /\ pc[c] = "active"
        /\ ~closed[c]
        /\ connections[AgentID[c]] = c
        /\ storeCPU[AgentID[c]] = 95
        /\ handling[c] = NoMsg
    /\ mainPc = "loop"
    /\ dconn = "open"
    /\ peerFrames = 1
    /\ rmsg = "COMMAND"
    /\ \A k \in Cmds : cmdPc[k] = "none"
    /\ wsent = <<>>

====
